---- MODULE Spec2Model ----
(***************************************************************************)
(* x402 payment gateway: the payment middleware (src/src/middleware/       *)
(* x402.ts, withPayment / verifyAndSettlePayment) over the LMDB-backed     *)
(* nonce and idempotency store (the store half of src/src/utils/cors.ts).  *)
(*                                                                         *)
(* One logical task per HTTP request.  Every `await` on the store is an    *)
(* interleaving point: a request is a small program counter machine and    *)
(* each action below runs the code between two store accesses.  The clock  *)
(* is Date.now() in whole seconds, so the store's `TTL * 1000` ms offsets   *)
(* are TTL units of it.  Outcomes of the chain adapters, of the external   *)
(* facilitator and of the inner handler are inputs.                        *)
(***************************************************************************)
EXTENDS Integers, Sequences, FiniteSets, TLC

\* ------------------------------------------------------------- bounds
\* Requests the gateway is given in one run.
MaxRequests == 3
\* Clock advances in one run.
MaxTicks == 1

\* ---------------------------------------------------- program constants
NONCE_PENDING_TTL == 3600
NONCE_CONFIRMED_TTL == 604800
IDEMPOTENCY_TTL == 3600

\* Request tasks that can be in flight at the same time.
Slots == {"a", "b"}
\* authorization.nonce values (EVM) / transaction bodies (SVM) clients send.
Nonces == {"n1"}
NoNonce == "none"
\* Valid payment identifiers clients send.
PaymentIds == {"p1"}
NoPid == "none"
\* The three settlement paths, and a network that is not active.
Paths == {"evm", "fac", "svm"}
Unsupported == "unsupported"
\* What the clock can advance by: to the last instant of the short TTL, past
\* it, and past the long TTL.
TickSteps == {NONCE_PENDING_TTL, NONCE_PENDING_TTL + 1, NONCE_CONFIRMED_TTL + 1}

NoEntry == [status |-> "absent", timestamp |-> 0, meta |-> 0, txHash |-> 0,
            expiresAt |-> 0]
NoHeader == <<>>

VARIABLES
    now,            \* Date.now(), seconds
    ticks,          \* clock advances so far
    nonceDb,        \* LMDB sub-database 'nonces': key -> NonceEntry | NoEntry
    idempotencyDb,  \* LMDB sub-database 'idempotency': paymentId -> entry | NoEntry
    reqs,           \* slot -> the request task running in it
    started,        \* requests given to the gateway so far
    sent,           \* the request whose response the last step sent, if any
    ledger,         \* the payments whose transfer the chain has executed
    svmFacilitator,         \* _svmFacilitator: 0 (null) or the instance
    svmFacilitatorAddress,  \* _svmFacilitatorAddress: "null" or the address
    svmInitPromise,         \* _svmInitPromise: 0 (null) or the promise
    promises,       \* the promises getSvmFacilitator's initializer returned
    callers,        \* the tasks that call getSvmFacilitator
    pricing,        \* one route price on one network, and a payment for it
    call            \* one call of the wrapper followed on its own

\* The module state of the SVM facilitator singleton and its callers.
svmVars == <<svmFacilitator, svmFacilitatorAddress, svmInitPromise, promises, callers>>

vars == <<now, ticks, nonceDb, idempotencyDb, reqs, started, sent, ledger,
          svmFacilitator, svmFacilitatorAddress, svmInitPromise, promises,
          callers, pricing, call>>

\* ----------------------------------------------------------- nonce keys
\* verifyAndSettlePayment's nonceKey: `svm:sha256(transaction)` on the SVM
\* path, authorization.nonce on the EVM-local path, null on the facilitator
\* path and when the payload carries no transaction / nonce.
NoKey == <<>>

\* A key derivation that takes authorization.nonce on the facilitator path too.
NonceKey_FacKeyed(path, nonce) ==
    IF nonce = NoNonce THEN NoKey
    ELSE IF path = "svm" THEN <<"svm:sha256", nonce>>
    ELSE <<nonce>>

NonceKey(path, nonce) ==
    IF nonce = NoNonce THEN NoKey
    ELSE IF path = "svm" THEN <<"svm:sha256", nonce>>
    ELSE IF path = "evm" THEN <<nonce>>
    ELSE NoKey

Keys == {NonceKey(p, n) : p \in {"evm", "svm"}, n \in Nonces}

\* ------------------------------------------------------------ the store
Expired(entry) == now > entry.expiresAt

PendingEntry(meta) ==
    [status |-> "pending", timestamp |-> now, meta |-> meta, txHash |-> 0,
     expiresAt |-> now + NONCE_PENDING_TTL]

ConfirmedEntry(meta, txHash) ==
    [status |-> "confirmed", timestamp |-> now, meta |-> meta,
     txHash |-> txHash, expiresAt |-> now + NONCE_CONFIRMED_TTL]

NoCache == [status |-> "absent", timestamp |-> 0, response |-> NoHeader,
            expiresAt |-> 0]

IdempotencyEntry(header) ==
    [status |-> "cached", timestamp |-> now, response |-> header,
     expiresAt |-> now + IDEMPOTENCY_TTL]

\* nonceDb.get / idempotencyDb.get: undefined for a key never written.
NonceAt(key) == IF key \in DOMAIN nonceDb THEN nonceDb[key] ELSE NoEntry

CacheAt(pid) == IF pid \in DOMAIN idempotencyDb THEN idempotencyDb[pid] ELSE NoCache

\* A setNoncePending that puts without looking at the key.
SetNoncePendingResult_NoCheck(key) == TRUE

\* setNoncePending's transaction: put iff the key holds nothing.
SetNoncePendingResult(key) == NonceAt(key) = NoEntry

\* A deleteNonce that removes nothing.
DeleteNonce_Noop(key) == nonceDb

\* nonceDb.remove(key), as deleteNonce and getWithExpiry call it.
DeleteNonce(key) == [nonceDb EXCEPT ![key] = NoEntry]

\* ------------------------------------------------------------- requests
\* extractPaymentIdentifier: the top-level `extensions` object when the
\* payload has one, else payload.payload.extensions; `top` and `inner` are
\* the valid paymentId each holds, NoPid when it holds none.
ExtractPaymentIdentifier(top, inner) == IF top # NoPid THEN top ELSE inner

\* The task of one request: its position (pc), the route key of the wrapper
\* that runs it (route), the network and the payer its payload names, what
\* it read from the payload (path, nonce, pid), what it has been told so far (existing, acquired,
\* settler, verified, idemHit, header, txHash) and its response (status,
\* error, reason, payReq, payResp), with the count of handler calls and of
\* deleteNonce calls made for it; `kvErrors` names the store functions whose
\* catch block ran for it.  `seen` and `seenCache` record what the
\* store held for its nonce key and its paymentId when it arrived, and
\* `seenExpired` whether that nonce record was then past its expiry; the code
\* reads none of the three.
IdleReq ==
    [pc |-> "idle", rid |-> 0, kind |-> "none", route |-> "none",
     network |-> "none", payer |-> "none", path |-> "none",
     nonce |-> NoNonce, pid |-> NoPid,
     existing |-> "none", acquired |-> "na", settler |-> "no",
     released |-> 0, idemHit |-> FALSE, verified |-> FALSE,
     header |-> NoHeader, txHash |-> 0,
     seen |-> NoEntry, seenExpired |-> FALSE, seenCache |-> NoCache,
     status |-> 0, error |-> "", reason |-> "", payReq |-> FALSE,
     payResp |-> NoHeader, handlerCalls |-> 0, kvErrors |-> {}]

\* --------------------------------------- the SVM facilitator singleton
\* Tasks that call getSvmFacilitator, and the calls they make in one run.
SvmCallers == {"c1", "c2", "c3"}
\* Calls one task makes in one run.
MaxSvmCalls == 2

\* A promise of the initializer: not created, pending, fulfilled with the
\* instance it built and the address it derived, or rejected.
NoPromise == [state |-> "none", facilitator |-> 0, feePayerAddress |-> "null"]

\* A caller: not calling, awaiting the promise it was handed, or resumed with
\* an instance and its address or with the rejection.
IdleCaller == [pc |-> "idle", calls |-> 0, awaits |-> 0, facilitator |-> 0,
               feePayerAddress |-> "null", cached |-> FALSE]

\* The module as loaded: the three `let ... = null`.
SvmLoaded ==
    /\ svmFacilitator = 0
    /\ svmFacilitatorAddress = "null"
    /\ svmInitPromise = 0
    /\ promises = [i \in 1..(Cardinality(SvmCallers) * MaxSvmCalls) |-> NoPromise]
    /\ callers = [c \in SvmCallers |-> IdleCaller]

\* ------------------------------------------------------------- pricing
\* No price computation under way.
NoPricing == [pc |-> "none"]

\* ------------------------------------------------------ a single call
\* No call is followed on its own.
NoCall == [pc |-> "none"]

Init ==
    /\ now = 0
    /\ ticks = 0
    /\ nonceDb = [k \in Keys |-> NoEntry]
    /\ idempotencyDb = [p \in PaymentIds |-> NoCache]
    /\ reqs = [s \in Slots |-> IdleReq]
    /\ started = 0
    /\ sent = IdleReq
    /\ ledger = {}
    /\ SvmLoaded
    /\ pricing = NoPricing
    /\ call = NoCall

Tick(d) ==
    /\ ticks < MaxTicks
    /\ now' = now + d
    /\ ticks' = ticks + 1
    /\ sent' = IdleReq
    /\ UNCHANGED <<nonceDb, idempotencyDb, reqs, started, ledger, svmVars, pricing, call>>

\* ---------------------------------------------------------- responses
\* A response the gateway builds itself (corsJsonWithHeaders / the 204).
Respond(q, status, error, reason, payReq) ==
    [q EXCEPT !.pc = "done", !.status = status, !.error = error,
              !.reason = reason, !.payReq = payReq]

\* PAYMENT-RESPONSE: base64(JSON({success, txHash, network, blockNumber,
\* facilitator?})).  Both encodings are injective, so the bytes are modelled
\* by the tuple of the encoded fields; `facilitator` is present only on the
\* facilitator path, blockNumber is a number only on the EVM-local path.
PaymentResponseHeader(path, txHash) ==
    IF path = "fac" THEN <<"success", txHash, path, "null", "facilitator">>
    ELSE IF path = "evm" THEN <<"success", txHash, path, "block">>
    ELSE <<"success", txHash, path, "null">>

\* A gateway that lets a request through when its verification failed.
VerificationFailed_PassThrough(q, reason) ==
    [q EXCEPT !.pc = "done", !.status = 200, !.reason = reason,
              !.handlerCalls = q.handlerCalls + 1]

VerificationFailed(q, reason) ==
    Respond(q, 402, "Payment verification failed", reason, TRUE)

\* A gateway that forwards a verified request without claim or settlement.
AfterVerification_NoSettle(q) ==
    [q EXCEPT !.pc = "done", !.verified = TRUE, !.status = 200,
              !.handlerCalls = q.handlerCalls + 1]

\* What follows a valid verification: the nonce claim when a key is derived,
\* the settler at once when none is.
AfterVerification(q) ==
    IF NonceKey(q.path, q.nonce) # NoKey
    THEN [q EXCEPT !.pc = "claim", !.verified = TRUE]
    ELSE [q EXCEPT !.pc = "settling", !.verified = TRUE, !.settler = "called"]

\* verifyAndSettlePayment from "Resolve network" to the next store access.
\* `valid` is the answer of the SVM adapter / of the external facilitator,
\* and on the EVM-local path whether the payload passes verifyPaymentEvm's
\* checks that precede the nonce lookup (fields, scheme, amount, recipient,
\* validity window at the current time).
ResolveAndVerify(q, valid) ==
    IF q.path = Unsupported
    THEN Respond(q, 402, "Unsupported network", "Network is not supported", FALSE)
    ELSE IF ~valid
    THEN VerificationFailed(q, IF q.path = "svm" THEN "SVM verification failed"
                               ELSE IF q.path = "fac" THEN "Facilitator rejected payment"
                               ELSE "Payment expired")
    ELSE IF q.path = "evm"
    THEN [q EXCEPT !.pc = "nonce_get"]
    ELSE AfterVerification(q)

\* verifyPaymentEvm after getNonce returned null: chainId, EIP-712 signature
\* and balance; `ok` is what the verifying library and the RPC read answer.
AfterNonceCheck(q, ok) ==
    IF ok THEN AfterVerification(q)
    ELSE VerificationFailed(q, "Signature does not match sender")

\* A withPayment that calls the handler and drops the header.
InvokeHandler_NoHeader(q, status) ==
    [q EXCEPT !.pc = "done", !.status = status,
              !.handlerCalls = q.handlerCalls + 1]

\* withPayment once verifyAndSettlePayment returned no error: the inner
\* handler is called, and PAYMENT-RESPONSE is set on what it returns when the
\* result carries a header.  `status` is the handler's answer.  The handler
\* reads nothing of the store, so its call runs in the step that leads to it.
HandlerStatuses == {200, 500}
\* A wrapper that takes the settlement back when the handler fails: it goes
\* on to deleteNonce and the 402 of a failed settlement.
InvokeHandler_ReleaseOnError(q, status) ==
    IF status >= 400 /\ q.settler = "ok" /\ NonceKey(q.path, q.nonce) # NoKey
    THEN [q EXCEPT !.pc = "release", !.handlerCalls = q.handlerCalls + 1]
    ELSE [q EXCEPT !.pc = "done", !.status = status,
                   !.handlerCalls = q.handlerCalls + 1, !.payResp = q.header]

InvokeHandler(q, status) ==
    [q EXCEPT !.pc = "done", !.status = status,
              !.handlerCalls = q.handlerCalls + 1, !.payResp = q.header]

\* ------------------------------------------------------------- actions
\* The task in slot r moves to q2.  A task that has built its response sends
\* it and ends: the slot is free for the next request.
Step(r, q2) ==
    /\ reqs' = [reqs EXCEPT ![r] = IF q2.pc = "done" THEN IdleReq ELSE q2]
    /\ sent' = IF q2.pc = "done" THEN q2 ELSE IdleReq
    /\ UNCHANGED <<svmVars, pricing, call>>

\* The handler withPayment(route, ...) returned is called, with a payload
\* for `network` signed by `payer` (`origin` holds the three): everything up
\* to the first store access.
StartOn(r, origin, kind, path, nonce, top, inner, valid) ==
    /\ reqs[r].pc = "idle"
    /\ started < MaxRequests
    /\ started' = started + 1
    /\ LET q == [IdleReq EXCEPT !.rid = started + 1, !.kind = kind,
                                !.route = origin.route,
                                !.network = origin.network,
                                !.payer = origin.payer]
           pid == ExtractPaymentIdentifier(top, inner)
           p == [q EXCEPT !.path = path, !.nonce = nonce, !.pid = pid,
                          !.seen = NonceAt(NonceKey(path, nonce)),
                          !.seenExpired =
                              /\ NonceAt(NonceKey(path, nonce)) # NoEntry
                              /\ Expired(NonceAt(NonceKey(path, nonce))),
                          !.seenCache = CacheAt(pid)]
       IN Step(r,
            CASE kind = "options" -> Respond(q, 204, "", "", FALSE)
              [] kind = "unknown_route" -> Respond(q, 500, "Unknown route", "", FALSE)
              [] kind = "no_header" -> Respond(q, 402, "Payment required", "", TRUE)
              [] kind = "bad_encoding" ->
                    Respond(q, 400, "Invalid payment payload encoding", "", FALSE)
              [] OTHER ->
                    IF pid # NoPid THEN [p EXCEPT !.pc = "idem_get"]
                    ELSE ResolveAndVerify(p, valid))
    /\ UNCHANGED <<now, ticks, nonceDb, idempotencyDb, ledger>>

\* One network of each path, and one that is not active.
NetworkOfPath(path) ==
    CASE path = "evm" -> "eip155:8453"
      [] path = "fac" -> "eip155:4326"
      [] path = "svm" -> "solana:5eykt4UsFv8P8NJdTREpY1vzqKqZKvdp"
      [] path = Unsupported -> "eip155:99999"
      [] OTHER -> "none"

\* A request to the one route of ROUTE_CONFIG, or to a key it has not; every
\* payment is signed by the one payer, for the one network of its path.
Start(r, kind, path, nonce, top, inner, valid) ==
    StartOn(r, [route |-> IF kind = "unknown_route" THEN "nonexistent" ELSE "myapi",
                network |-> NetworkOfPath(path),
                payer |-> IF kind = "payment" THEN "0xpayer1" ELSE "none"],
            kind, path, nonce, top, inner, valid)

\* A lookup that answers only a request for the network the record's
\* settlement was made on.
CachedFor_SameNetwork(q) ==
    IF CacheAt(q.pid).status = "cached" /\ CacheAt(q.pid).response[3] # q.path
    THEN NoCache ELSE CacheAt(q.pid)

\* The record getIdempotencyCache(paymentId) reads for the request: the key
\* is IDEMPOTENCY_PREFIX followed by the paymentId.
CachedFor(q) == CacheAt(q.pid)

\* getIdempotencyCache: getWithExpiry's db.get and expiry test.
IdemGet(r, valid, status) ==
    LET q == reqs[r]
        entry == CachedFor(q)
    IN /\ q.pc = "idem_get"
       /\ Step(r,
            IF entry = NoCache THEN ResolveAndVerify(q, valid)
            ELSE IF Expired(entry) THEN [q EXCEPT !.pc = "idem_remove"]
            ELSE InvokeHandler([q EXCEPT !.idemHit = TRUE,
                                         !.header = entry.response], status))
       /\ UNCHANGED <<now, ticks, nonceDb, idempotencyDb, started, ledger>>

\* getWithExpiry's db.remove of the entry it found expired, then the miss.
IdemRemove(r, valid) ==
    LET q == reqs[r]
    IN /\ q.pc = "idem_remove"
       /\ idempotencyDb' = [idempotencyDb EXCEPT ![q.pid] = NoCache]
       /\ Step(r, ResolveAndVerify(q, valid))
       /\ UNCHANGED <<now, ticks, nonceDb, started, ledger>>

\* A key scoped by payer: the records of the second payer are kept apart
\* from those of the first, under the other key of the store.
KeyOf_PayerScoped(q) ==
    IF q.path = "evm" /\ q.nonce # NoNonce /\ q.payer = "0xpayer2"
    THEN <<"svm:sha256", q.nonce>>
    ELSE NonceKey(q.path, q.nonce)

\* The key of the request's nonce record (x402.ts 1052-1066): derived from
\* the authorization nonce or the transaction alone, whoever the payer and
\* whichever the network and the route.
KeyOf(q) == NonceKey(q.path, q.nonce)

\* getNonce in verifyPaymentEvm: getWithExpiry's db.get and expiry test.
NonceGet(r, ok) ==
    LET q == reqs[r]
        entry == NonceAt(KeyOf(q))
    IN /\ q.pc = "nonce_get"
       /\ Step(r,
            IF entry = NoEntry THEN AfterNonceCheck(q, ok)
            ELSE IF Expired(entry) THEN [q EXCEPT !.pc = "nonce_remove"]
            ELSE VerificationFailed([q EXCEPT !.existing = entry.status],
                                    "Nonce already used"))
       /\ UNCHANGED <<now, ticks, nonceDb, idempotencyDb, started, ledger>>

\* getWithExpiry's db.remove of the nonce entry it found expired.
NonceRemove(r, ok) ==
    LET q == reqs[r]
        key == KeyOf(q)
    IN /\ q.pc = "nonce_remove"
       /\ nonceDb' = DeleteNonce(key)
       /\ Step(r, AfterNonceCheck(q, ok))
       /\ UNCHANGED <<now, ticks, idempotencyDb, started, ledger>>

\* setNoncePending, and the 402 of a lost claim.
Claim(r) ==
    LET q == reqs[r]
        key == KeyOf(q)
    IN /\ q.pc = "claim"
       /\ IF SetNoncePendingResult(key)
          THEN /\ nonceDb' = [nonceDb EXCEPT ![key] = PendingEntry(q.rid)]
               /\ Step(r, [q EXCEPT !.pc = "settling", !.acquired = "true",
                                    !.settler = "called"])
          ELSE /\ nonceDb' = nonceDb
               /\ Step(r, Respond([q EXCEPT !.acquired = "false"], 402,
                                  "Payment verification failed",
                                  "Nonce already used or settlement in progress",
                                  FALSE))
       /\ UNCHANGED <<now, ticks, idempotencyDb, started, ledger>>

\* The payment a payload authorises: the signed EIP-3009 authorization (its
\* payer and nonce) or the signed Solana transaction, on its network.
Payment(q) == <<q.network, q.payer, q.nonce>>

\* The settler returns a receipt: the transfer was executed, which the chain
\* does once per payment ("settlement still checks on-chain").  Every
\* settlement has its own transaction hash: the request's serial number
\* stands for it.
SettleOk(r, status) ==
    LET q == reqs[r]
        hdr == PaymentResponseHeader(q.path, q.rid)
        p == [q EXCEPT !.settler = "ok", !.header = hdr, !.txHash = q.rid]
    IN /\ q.pc = "settling"
       /\ Payment(q) \notin ledger
       /\ ledger' = ledger \cup {Payment(q)}
       /\ Step(r, IF KeyOf(q) # NoKey THEN [p EXCEPT !.pc = "confirm"]
                  ELSE IF q.pid # NoPid THEN [p EXCEPT !.pc = "cache"]
                  ELSE InvokeHandler(p, status))
       /\ UNCHANGED <<now, ticks, nonceDb, idempotencyDb, started>>

\* The settler raises: the catch block up to deleteNonce, or the 402.  It
\* raises before anything was submitted (missing configuration, RPC error,
\* revert, facilitator refusal), or after the transfer was executed
\* (waitForTransactionReceipt fails, the SVM result has no payer, the
\* facilitator's answer cannot be read): `submitted`.
SettleRaise(r, submitted) ==
    LET q == reqs[r]
        p == [q EXCEPT !.settler = "raised"]
    IN /\ q.pc = "settling"
       /\ submitted => Payment(q) \notin ledger
       /\ ledger' = IF submitted THEN ledger \cup {Payment(q)} ELSE ledger
       /\ Step(r, IF KeyOf(q) # NoKey
                  THEN [p EXCEPT !.pc = "release"]
                  ELSE Respond(p, 402, "Payment settlement failed",
                               "settler error", FALSE))
       /\ UNCHANGED <<now, ticks, nonceDb, idempotencyDb, started>>

\* setNonceConfirmed: unconditional put with the long TTL.
Confirm(r, status) ==
    LET q == reqs[r]
        key == KeyOf(q)
    IN /\ q.pc = "confirm"
       /\ nonceDb' = [nonceDb EXCEPT ![key] = ConfirmedEntry(q.rid, q.txHash)]
       /\ Step(r, IF q.pid # NoPid THEN [q EXCEPT !.pc = "cache"]
                  ELSE InvokeHandler(q, status))
       /\ UNCHANGED <<now, ticks, idempotencyDb, started, ledger>>

\* setIdempotencyCache: unconditional put.
Cache(r, status) ==
    LET q == reqs[r]
    IN /\ q.pc = "cache"
       /\ idempotencyDb' = [idempotencyDb EXCEPT ![q.pid] = IdempotencyEntry(q.header)]
       /\ Step(r, InvokeHandler(q, status))
       /\ UNCHANGED <<now, ticks, nonceDb, started, ledger>>

\* deleteNonce in the catch block, then the 402.
Release(r) ==
    LET q == reqs[r]
        key == KeyOf(q)
    IN /\ q.pc = "release"
       /\ nonceDb' = DeleteNonce(key)
       /\ Step(r, Respond([q EXCEPT !.released = q.released + 1], 402,
                          "Payment settlement failed", "settler error", FALSE))
       /\ UNCHANGED <<now, ticks, idempotencyDb, started, ledger>>

\* The task of a request in flight ends without a response (the process is
\* killed, the call never returns): nothing further of it runs.
Crash(r) ==
    /\ reqs[r].pc # "idle"
    /\ reqs' = [reqs EXCEPT ![r] = IdleReq]
    /\ sent' = IdleReq
    /\ UNCHANGED <<now, ticks, nonceDb, idempotencyDb, started, ledger, svmVars, pricing, call>>

Kinds == {"options", "unknown_route", "no_header", "bad_encoding", "payment"}

\* The payment payloads clients send.  An unsupported network is answered
\* before any field but the payment identifier is read.
Extensions ==
    {[top |-> NoPid, inner |-> NoPid]}
    \cup {[top |-> p, inner |-> NoPid] : p \in PaymentIds}
    \cup {[top |-> NoPid, inner |-> p] : p \in PaymentIds}

Payloads ==
    {[path |-> x, nonce |-> n, ext |-> e] :
        x \in {"evm", "svm"}, n \in Nonces, e \in Extensions}
    \cup {[path |-> "fac", nonce |-> n, ext |-> e] :
        n \in Nonces, e \in Extensions}
    \cup {[path |-> Unsupported, nonce |-> NoNonce, ext |-> e] : e \in Extensions}

\* A request with a decodable payment header on a known route.
StartPayment(r) ==
    \E pl \in Payloads, valid \in BOOLEAN :
        Start(r, "payment", pl.path, pl.nonce, pl.ext.top, pl.ext.inner, valid)

\* A preflight, an unknown route key, no payment header, an undecodable one.
StartOther(r) ==
    \E kind \in Kinds \ {"payment"} :
        Start(r, kind, "none", NoNonce, NoPid, NoPid, FALSE)

Next ==
    \/ \E d \in TickSteps : Tick(d)
    \/ \E r \in Slots : StartPayment(r)
    \/ \E r \in Slots, valid \in BOOLEAN, st \in HandlerStatuses : IdemGet(r, valid, st)
    \/ \E r \in Slots, valid \in BOOLEAN : IdemRemove(r, valid)
    \/ \E r \in Slots, ok \in BOOLEAN : NonceGet(r, ok)
    \/ \E r \in Slots, ok \in BOOLEAN : NonceRemove(r, ok)
    \/ \E r \in Slots : Claim(r)
    \/ \E r \in Slots, st \in HandlerStatuses : SettleOk(r, st)
    \/ \E r \in Slots, submitted \in BOOLEAN : SettleRaise(r, submitted)
    \/ \E r \in Slots, st \in HandlerStatuses : Confirm(r, st)
    \/ \E r \in Slots, st \in HandlerStatuses : Cache(r, st)
    \/ \E r \in Slots : Release(r)
    \/ \E r \in Slots : Crash(r)

\* The gateway serving payment requests.
Spec == Init /\ [][Next]_vars

\* The gateway serving every kind of request.
NextAll == Next \/ \E r \in Slots : StartOther(r)
SpecAll == Init /\ [][NextAll]_vars

\* ------------------------------------------------------- several routes
\* A ROUTE_CONFIG with two keys: each has its own withPayment handler, over
\* the one store.  The requests go to the two routes in turn, the first to
\* "myapi", and each carries a payment identifier.
Routes == {"myapi", "premium"}

RouteOfRequest(n) == IF n % 2 = 1 THEN "myapi" ELSE "premium"

StartOnRoute(r) ==
    \E pl \in {x \in Payloads : x.ext.top # NoPid \/ x.ext.inner # NoPid},
       valid \in BOOLEAN :
        StartOn(r, [route |-> RouteOfRequest(started + 1),
                    network |-> NetworkOfPath(pl.path), payer |-> "0xpayer1"],
                "payment", pl.path, pl.nonce, pl.ext.top, pl.ext.inner, valid)

NextRoutes ==
    \/ \E d \in TickSteps : Tick(d)
    \/ \E r \in Slots : StartOnRoute(r)
    \/ \E r \in Slots, valid \in BOOLEAN, st \in HandlerStatuses : IdemGet(r, valid, st)
    \/ \E r \in Slots, valid \in BOOLEAN : IdemRemove(r, valid)
    \/ \E r \in Slots, ok \in BOOLEAN : NonceGet(r, ok)
    \/ \E r \in Slots, ok \in BOOLEAN : NonceRemove(r, ok)
    \/ \E r \in Slots : Claim(r)
    \/ \E r \in Slots, st \in HandlerStatuses : SettleOk(r, st)
    \/ \E r \in Slots, submitted \in BOOLEAN : SettleRaise(r, submitted)
    \/ \E r \in Slots, st \in HandlerStatuses : Confirm(r, st)
    \/ \E r \in Slots, st \in HandlerStatuses : Cache(r, st)
    \/ \E r \in Slots : Release(r)

\* The gateway serving payment requests on two routes.
SpecRoutes == Init /\ [][NextRoutes]_vars

\* ------------------------------------------- several payers and networks
\* EVM-local payments without a paymentId, signed by either of two payers
\* for either of two networks that are settled locally.
Payers == {"0xpayer1", "0xpayer2"}
EvmLocalNetworks == {"eip155:8453", "eip155:42161"}

StartEvm(r) ==
    \E network \in EvmLocalNetworks, payer \in Payers, n \in Nonces,
       valid \in BOOLEAN :
        StartOn(r, [route |-> "myapi", network |-> network, payer |-> payer],
                "payment", "evm", n, NoPid, NoPid, valid)

NextEvm ==
    \/ \E d \in TickSteps : Tick(d)
    \/ \E r \in Slots : StartEvm(r)
    \/ \E r \in Slots, ok \in BOOLEAN : NonceGet(r, ok)
    \/ \E r \in Slots, ok \in BOOLEAN : NonceRemove(r, ok)
    \/ \E r \in Slots : Claim(r)
    \/ \E r \in Slots, st \in HandlerStatuses : SettleOk(r, st)
    \/ \E r \in Slots, submitted \in BOOLEAN : SettleRaise(r, submitted)
    \/ \E r \in Slots, st \in HandlerStatuses : Confirm(r, st)
    \/ \E r \in Slots : Release(r)

\* The gateway serving EVM-local payments of two payers on two networks.
SpecEvm == Init /\ [][NextEvm]_vars

\* ------------------------------------------- setNoncePending on its own
\* Two tasks have each reached their setNoncePending call, on the same key or
\* on different ones, at a time when the store holds for each key nothing, a
\* pending record or a confirmed one written at time 0 by an earlier request.
\* Only the two calls and the clock run.
EarlierRecords ==
    {NoEntry,
     [status |-> "pending", timestamp |-> 0, meta |-> 0, txHash |-> 0,
      expiresAt |-> NONCE_PENDING_TTL],
     [status |-> "confirmed", timestamp |-> 0, meta |-> 0, txHash |-> 0,
      expiresAt |-> NONCE_CONFIRMED_TTL]}

Caller(rid, path, nonce, db) ==
    [IdleReq EXCEPT !.pc = "claim", !.rid = rid, !.kind = "payment",
                    !.path = path, !.nonce = nonce, !.verified = TRUE,
                    !.seen = db[NonceKey(path, nonce)],
                    !.seenExpired =
                        /\ db[NonceKey(path, nonce)] # NoEntry
                        /\ now > db[NonceKey(path, nonce)].expiresAt]

InitStore ==
    /\ now \in {0, NONCE_PENDING_TTL + 1}
    /\ ticks = 0
    /\ nonceDb \in [Keys -> EarlierRecords]
    /\ idempotencyDb = [p \in PaymentIds |-> NoCache]
    /\ \E pa \in {"evm", "svm"}, pb \in {"evm", "svm"}, n \in Nonces :
          reqs = [s \in Slots |-> IF s = "a" THEN Caller(1, pa, n, nonceDb)
                                  ELSE Caller(2, pb, n, nonceDb)]
    /\ started = 2
    /\ sent = IdleReq
    /\ ledger = {}
    /\ SvmLoaded
    /\ pricing = NoPricing
    /\ call = NoCall

NextStore ==
    \/ \E r \in Slots : Claim(r)
    \/ \E d \in TickSteps : Tick(d)

SpecStore == InitStore /\ [][NextStore]_vars

\* ------------------------------------------------ the two stores
\* The LMDB-backed store functions and the Upstash-Redis-backed ones given
\* the same calls at the same times.  The LMDB store is nonceDb and
\* idempotencyDb; the Redis store is carried by `call`, with the results the
\* two gave to the last call.  A Redis key set with `ex` is gone once its
\* time has passed, at the instant from which the LMDB functions treat the
\* entry as expired.

\* What a store function returns: the boolean of setNoncePending, the data
\* of a get (NoEntry / NoCache for null).
Returned(ok, data) == [ok |-> ok, data |-> data]
Void == Returned(TRUE, NoEntry)

\* entry.data: the stored record without its expiresAt.
DataOf(entry) == [entry EXCEPT !.expiresAt = 0]

\* GET on the Redis server: nothing for a key whose time has passed.
RedisGet(db, key, none) ==
    IF db[key] # none /\ ~Expired(db[key]) THEN db[key] ELSE none

\* getWithExpiry over an LMDB database: the data, or null for no entry and
\* for an expired one, which it removes.
GetWithExpiry(db, key, none) ==
    IF db[key] = none THEN [db |-> db, result |-> Returned(TRUE, none)]
    ELSE IF Expired(db[key])
         THEN [db |-> [db EXCEPT ![key] = none], result |-> Returned(TRUE, none)]
         ELSE [db |-> db, result |-> Returned(TRUE, DataOf(db[key]))]

\* setNoncePending of the LMDB store: the transaction puts iff db.get(key)
\* is undefined; expiresAt is not looked at.
LmdbSetNoncePending(db, key, meta) ==
    IF db[key] # NoEntry THEN [db |-> db, result |-> Returned(FALSE, NoEntry)]
    ELSE [db |-> [db EXCEPT ![key] = PendingEntry(meta)],
          result |-> Returned(TRUE, NoEntry)]

\* setNoncePending of the Redis store: SET with nx and ex, true iff 'OK'.
RedisSetNoncePending(db, key, meta) ==
    IF RedisGet(db, key, NoEntry) # NoEntry
    THEN [db |-> db, result |-> Returned(FALSE, NoEntry)]
    ELSE [db |-> [db EXCEPT ![key] = PendingEntry(meta)],
          result |-> Returned(TRUE, NoEntry)]

\* One call made to both stores: its name, the two databases it leaves and
\* the two results it gave.
BothStores(fn, lmdbNonces, lmdbIdempotency, lmdb, redisNonces, redisIdempotency, redis) ==
    /\ call.pc = "stores"
    /\ nonceDb' = lmdbNonces
    /\ idempotencyDb' = lmdbIdempotency
    /\ call' = [call EXCEPT !.fn = fn, !.lmdb = lmdb, !.redis = redis,
                            !.nonces = redisNonces,
                            !.idempotency = redisIdempotency]
    /\ UNCHANGED <<now, ticks, reqs, started, sent, ledger, svmVars, pricing>>

StoresGetNonce(key) ==
    LET l == GetWithExpiry(nonceDb, key, NoEntry)
    IN BothStores("getNonce", l.db, idempotencyDb, l.result,
                  call.nonces, call.idempotency,
                  Returned(TRUE, DataOf(RedisGet(call.nonces, key, NoEntry))))

StoresSetNoncePending(key, meta) ==
    LET l == LmdbSetNoncePending(nonceDb, key, meta)
        u == RedisSetNoncePending(call.nonces, key, meta)
    IN BothStores("setNoncePending", l.db, idempotencyDb, l.result,
                  u.db, call.idempotency, u.result)

StoresSetNonceConfirmed(key, meta) ==
    BothStores("setNonceConfirmed",
               [nonceDb EXCEPT ![key] = ConfirmedEntry(meta, meta)],
               idempotencyDb, Void,
               [call.nonces EXCEPT ![key] = ConfirmedEntry(meta, meta)],
               call.idempotency, Void)

StoresDeleteNonce(key) ==
    BothStores("deleteNonce", DeleteNonce(key), idempotencyDb, Void,
               [call.nonces EXCEPT ![key] = NoEntry], call.idempotency, Void)

StoresGetIdempotencyCache(pid) ==
    LET l == GetWithExpiry(idempotencyDb, pid, NoCache)
    IN BothStores("getIdempotencyCache", nonceDb, l.db, l.result,
                  call.nonces, call.idempotency,
                  Returned(TRUE, DataOf(RedisGet(call.idempotency, pid, NoCache))))

StoresSetIdempotencyCache(pid, header) ==
    BothStores("setIdempotencyCache", nonceDb,
               [idempotencyDb EXCEPT ![pid] = IdempotencyEntry(header)], Void,
               call.nonces,
               [call.idempotency EXCEPT ![pid] = IdempotencyEntry(header)], Void)

InitStores ==
    /\ now = 0
    /\ ticks = 0
    /\ nonceDb = [k \in Keys |-> NoEntry]
    /\ idempotencyDb = [p \in PaymentIds |-> NoCache]
    /\ reqs = [s \in Slots |-> IdleReq]
    /\ started = 0
    /\ sent = IdleReq
    /\ ledger = {}
    /\ SvmLoaded
    /\ pricing = NoPricing
    /\ call = [pc |-> "stores", fn |-> "none", lmdb |-> Void, redis |-> Void,
               nonces |-> [k \in Keys |-> NoEntry],
               idempotency |-> [p \in PaymentIds |-> NoCache]]

NextStores ==
    \/ \E d \in TickSteps : Tick(d)
    \/ \E k \in Keys : StoresGetNonce(k)
    \/ \E k \in Keys, rid \in 1..2 : StoresSetNoncePending(k, rid)
    \/ \E k \in Keys, rid \in 1..2 : StoresSetNonceConfirmed(k, rid)
    \/ \E k \in Keys : StoresDeleteNonce(k)
    \/ \E p \in PaymentIds : StoresGetIdempotencyCache(p)
    \/ \E p \in PaymentIds, rid \in 1..2 :
          StoresSetIdempotencyCache(p, PaymentResponseHeader("evm", rid))

\* The same calls made to the LMDB store and to the Redis store.
SpecStores == InitStores /\ [][NextStores]_vars

\* ------------------------------------------------- the store raising
\* Requests the gateway is given in a run where the store can raise.
MaxFaultyRequests == 2

\* The catch block of the store function `fn` ran for the request.
Caught(q, fn) == [q EXCEPT !.kvErrors = q.kvErrors \cup {fn}]

\* A getNonce whose catch block reports the nonce as used.
NonceReadFailed_FailClosed(q, ok) ==
    VerificationFailed(Caught(q, "getNonce"), "Nonce already used")

\* getNonce's catch block: `return null`, and verifyPaymentEvm goes on.
NonceReadFailed(q, ok) == AfterNonceCheck(Caught(q, "getNonce"), ok)

\* A setNoncePending whose catch block reports the nonce as claimed.
ClaimFailed_FailOpen(q) ==
    [Caught(q, "setNoncePending") EXCEPT !.pc = "settling", !.acquired = "true",
                                         !.settler = "called"]

\* setNoncePending's catch block: `return false`, and the 402 of a lost claim.
ClaimFailed(q) ==
    Respond([Caught(q, "setNoncePending") EXCEPT !.acquired = "false"], 402,
            "Payment verification failed",
            "Nonce already used or settlement in progress", FALSE)

\* A verifyAndSettlePayment that releases the nonce when a write after the
\* settlement raised.
AfterWriteFailed_Release(q, fn, status) ==
    Respond([Caught(q, fn) EXCEPT !.released = q.released + 1], 402,
            "Payment settlement failed", "store error", FALSE)

\* setNonceConfirmed's and setIdempotencyCache's catch blocks log and return:
\* verifyAndSettlePayment goes on to the next write or to its result.
AfterWriteFailed(q, fn, status) ==
    IF fn = "setNonceConfirmed" /\ q.pid # NoPid
    THEN [Caught(q, fn) EXCEPT !.pc = "cache"]
    ELSE InvokeHandler(Caught(q, fn), status)

\* getIdempotencyCache raises in getWithExpiry's db.get or db.remove: null.
IdemGetRaise(r, valid) ==
    LET q == reqs[r]
    IN /\ q.pc \in {"idem_get", "idem_remove"}
       /\ Step(r, ResolveAndVerify(Caught(q, "getIdempotencyCache"), valid))
       /\ UNCHANGED <<now, ticks, nonceDb, idempotencyDb, started, ledger>>

\* getNonce raises in getWithExpiry's db.get or db.remove.
NonceGetRaise(r, ok) ==
    LET q == reqs[r]
    IN /\ q.pc \in {"nonce_get", "nonce_remove"}
       /\ Step(r, NonceReadFailed(q, ok))
       /\ UNCHANGED <<now, ticks, nonceDb, idempotencyDb, started, ledger>>

\* setNoncePending's transaction raises: nothing is written.
ClaimRaise(r) ==
    LET q == reqs[r]
    IN /\ q.pc = "claim"
       /\ Step(r, ClaimFailed(q))
       /\ UNCHANGED <<now, ticks, nonceDb, idempotencyDb, started, ledger>>

\* setNonceConfirmed's put raises: the pending record stays as it is.
ConfirmRaise(r, status) ==
    LET q == reqs[r]
    IN /\ q.pc = "confirm"
       /\ Step(r, AfterWriteFailed(q, "setNonceConfirmed", status))
       /\ UNCHANGED <<now, ticks, nonceDb, idempotencyDb, started, ledger>>

\* setIdempotencyCache's put raises: nothing is cached.
CacheRaise(r, status) ==
    LET q == reqs[r]
    IN /\ q.pc = "cache"
       /\ Step(r, AfterWriteFailed(q, "setIdempotencyCache", status))
       /\ UNCHANGED <<now, ticks, nonceDb, idempotencyDb, started, ledger>>

\* deleteNonce's remove raises: the record stays, the 402 is sent all the same.
ReleaseRaise(r) ==
    LET q == reqs[r]
    IN /\ q.pc = "release"
       /\ Step(r, Respond([Caught(q, "deleteNonce") EXCEPT !.released = q.released + 1],
                          402, "Payment settlement failed", "settler error", FALSE))
       /\ UNCHANGED <<now, ticks, nonceDb, idempotencyDb, started, ledger>>

\* A payment request, while fewer than MaxFaultyRequests were given.
StartFaulty(r) == started < MaxFaultyRequests /\ StartPayment(r)

NextFaulty ==
    \/ \E d \in TickSteps : Tick(d)
    \/ \E r \in Slots : StartFaulty(r)
    \/ \E r \in Slots, valid \in BOOLEAN, st \in HandlerStatuses : IdemGet(r, valid, st)
    \/ \E r \in Slots, valid \in BOOLEAN : IdemRemove(r, valid)
    \/ \E r \in Slots, ok \in BOOLEAN : NonceGet(r, ok)
    \/ \E r \in Slots, ok \in BOOLEAN : NonceRemove(r, ok)
    \/ \E r \in Slots : Claim(r)
    \/ \E r \in Slots, st \in HandlerStatuses : SettleOk(r, st)
    \/ \E r \in Slots, submitted \in BOOLEAN : SettleRaise(r, submitted)
    \/ \E r \in Slots, st \in HandlerStatuses : Confirm(r, st)
    \/ \E r \in Slots, st \in HandlerStatuses : Cache(r, st)
    \/ \E r \in Slots : Release(r)
    \/ \E r \in Slots, valid \in BOOLEAN : IdemGetRaise(r, valid)
    \/ \E r \in Slots, ok \in BOOLEAN : NonceGetRaise(r, ok)
    \/ \E r \in Slots : ClaimRaise(r)
    \/ \E r \in Slots, st \in HandlerStatuses : ConfirmRaise(r, st)
    \/ \E r \in Slots, st \in HandlerStatuses : CacheRaise(r, st)
    \/ \E r \in Slots : ReleaseRaise(r)

\* The gateway serving payment requests over a store that can raise.
SpecFaulty == Init /\ [][NextFaulty]_vars

\* --------------------------------------------- getSvmFacilitator
gatewayVars == <<now, ticks, nonceDb, idempotencyDb, reqs, started, sent, ledger>>

\* A getSvmFacilitator that never looks at the initialization in flight.
SharedInit_Never == FALSE

\* A getSvmFacilitator that hands out the initialization in flight only
\* while it has not failed.
SharedInit_PendingOnly ==
    svmInitPromise # 0 /\ promises[svmInitPromise].state = "pending"

\* `if (_svmInitPromise) return _svmInitPromise`.
SharedInit == svmInitPromise # 0

\* The initializations started so far.
Started == {i \in DOMAIN promises : promises[i].state # "none"}

\* One call of getSvmFacilitator, up to its return: the cached pair when both
\* are set, else the promise in flight, else a new initializer, which runs at
\* once up to its first await; it throws there when the key is not configured
\* or does not decode (`configured`), and its promise is stored either way.
GetSvmFacilitator(c, configured) ==
    LET k == callers[c]
        id == Cardinality(Started) + 1
    IN /\ k.pc = "idle"
       /\ k.calls < MaxSvmCalls
       /\ IF svmFacilitator # 0 /\ svmFacilitatorAddress # "null"
          THEN /\ callers' = [callers EXCEPT ![c] =
                    [k EXCEPT !.pc = "returned", !.calls = k.calls + 1,
                              !.facilitator = svmFacilitator,
                              !.feePayerAddress = svmFacilitatorAddress,
                              !.cached = TRUE]]
               /\ UNCHANGED <<svmInitPromise, promises>>
          ELSE IF SharedInit
          THEN /\ callers' = [callers EXCEPT ![c] =
                    [k EXCEPT !.pc = "await", !.calls = k.calls + 1,
                              !.awaits = svmInitPromise]]
               /\ UNCHANGED <<svmInitPromise, promises>>
          ELSE /\ promises' = [promises EXCEPT ![id] =
                    [NoPromise EXCEPT !.state = IF configured THEN "pending"
                                                ELSE "rejected"]]
               /\ svmInitPromise' = id
               /\ callers' = [callers EXCEPT ![c] =
                    [k EXCEPT !.pc = "await", !.calls = k.calls + 1,
                              !.awaits = id]]
       /\ UNCHANGED <<svmFacilitator, svmFacilitatorAddress, gatewayVars, pricing, call>>

\* The initializer after `await createKeyPairSignerFromBytes`: the signer and
\* the instance are built and the three module variables set, or it throws
\* (the key has the wrong length, no address is derived).
InitializerDone(i, ok) ==
    /\ promises[i].state = "pending"
    /\ IF ok
       THEN /\ svmFacilitator' = i
            /\ svmFacilitatorAddress' = "feePayer"
            /\ svmInitPromise' = 0
            /\ promises' = [promises EXCEPT ![i] =
                  [state |-> "fulfilled", facilitator |-> i,
                   feePayerAddress |-> "feePayer"]]
       ELSE /\ promises' = [promises EXCEPT ![i].state = "rejected"]
            /\ UNCHANGED <<svmFacilitator, svmFacilitatorAddress, svmInitPromise>>
    /\ UNCHANGED <<callers, gatewayVars, pricing, call>>

\* A caller is resumed by the promise it awaits.
Resume(c) ==
    LET k == callers[c]
        pr == promises[k.awaits]
    IN /\ k.pc = "await"
       /\ pr.state \in {"fulfilled", "rejected"}
       /\ callers' = [callers EXCEPT ![c] =
             IF pr.state = "fulfilled"
             THEN [k EXCEPT !.pc = "returned", !.facilitator = pr.facilitator,
                            !.feePayerAddress = pr.feePayerAddress]
             ELSE [k EXCEPT !.pc = "threw"]]
       /\ UNCHANGED <<svmFacilitator, svmFacilitatorAddress, svmInitPromise,
                      promises, gatewayVars, pricing, call>>

\* The caller is done with what it was given; it may call again.
CallAgain(c) ==
    /\ callers[c].pc \in {"returned", "threw"}
    /\ callers' = [callers EXCEPT ![c] = [IdleCaller EXCEPT !.calls = callers[c].calls]]
    /\ UNCHANGED <<svmFacilitator, svmFacilitatorAddress, svmInitPromise,
                   promises, gatewayVars, pricing, call>>

NextSvm ==
    \/ \E c \in SvmCallers, configured \in BOOLEAN : GetSvmFacilitator(c, configured)
    \/ \E i \in DOMAIN promises, ok \in BOOLEAN : InitializerDone(i, ok)
    \/ \E c \in SvmCallers : Resume(c)
    \/ \E c \in SvmCallers : CallAgain(c)

\* The tasks of the gateway calling getSvmFacilitator.
SpecSvm == Init /\ [][NextSvm]_vars

\* ---------------------------------------------------------- price scaling
\* Decimal strings are sequences of digit characters; a BigInt is its
\* sequence of decimal digits, most significant first, without leading
\* zeros (0n is <<0>>).
DigitChars == <<"0", "1", "2", "3", "4", "5", "6", "7", "8", "9">>

CharValue(ch) == CHOOSE v \in 0..9 : DigitChars[v + 1] = ch

RECURSIVE Normalised(_)
Normalised(ds) ==
    IF Len(ds) > 1 /\ Head(ds) = 0 THEN Normalised(Tail(ds)) ELSE ds

\* BigInt(string) of a decimal string.
BigInt(str) == Normalised([i \in 1..Len(str) |-> CharValue(str[i])])

\* A toString that writes every number as "0".
BigIntToString_Zero(b) == <<"0">>

\* BigInt.prototype.toString().
BigIntToString(b) == [i \in 1..Len(b) |-> DigitChars[b[i] + 1]]

\* a + b, digit by digit from the least significant one; `acc` holds the
\* digits written so far.
RECURSIVE AddFrom(_, _, _, _)
AddFrom(a, b, carry, acc) ==
    LET i == Len(acc) + 1
    IN IF i > Len(a) /\ i > Len(b)
       THEN IF carry = 0 THEN acc ELSE <<carry>> \o acc
       ELSE LET da == IF i <= Len(a) THEN a[Len(a) + 1 - i] ELSE 0
                db == IF i <= Len(b) THEN b[Len(b) + 1 - i] ELSE 0
                sum == da + db + carry
            IN AddFrom(a, b, sum \div 10, <<sum % 10>> \o acc)

BigAdd(a, b) == Normalised(AddFrom(a, b, 0, <<>>))

\* a * m for one digit m.
RECURSIVE TimesDigitFrom(_, _, _, _)
TimesDigitFrom(a, m, carry, acc) ==
    LET i == Len(acc) + 1
    IN IF i > Len(a)
       THEN IF carry = 0 THEN acc ELSE <<carry>> \o acc
       ELSE LET prod == a[Len(a) + 1 - i] * m + carry
            IN TimesDigitFrom(a, m, prod \div 10, <<prod % 10>> \o acc)

TimesDigit(a, m) == Normalised(TimesDigitFrom(a, m, 0, <<>>))

\* a * b: for each digit of b from the most significant one, ten times the
\* sum so far (a zero appended, nothing to shift while it is 0) plus a times
\* the digit.
RECURSIVE MulFrom(_, _, _, _)
MulFrom(a, b, i, acc) ==
    IF i > Len(b) THEN acc
    ELSE IF acc = <<0>> THEN MulFrom(a, b, i + 1, TimesDigit(a, b[i]))
    ELSE MulFrom(a, b, i + 1, BigAdd(acc \o <<0>>, TimesDigit(a, b[i])))

BigMul(a, b) == MulFrom(a, b, 1, <<0>>)

\* base ** k.
RECURSIVE BigPow(_, _)
BigPow(base, k) == IF k = 0 THEN <<1>> ELSE BigMul(base, BigPow(base, k - 1))

\* a < b.
RECURSIVE LexLess(_, _)
LexLess(a, b) ==
    IF a = <<>> THEN FALSE
    ELSE IF Head(a) # Head(b) THEN Head(a) < Head(b)
    ELSE LexLess(Tail(a), Tail(b))

BigLess(a, b) ==
    IF Len(a) # Len(b) THEN Len(a) < Len(b) ELSE LexLess(a, b)

\* A scaling that takes the token's decimals as the exponent.
RequiredAmount_FullExponent(priceAtomic, decimals) ==
    IF decimals > 0
    THEN BigMul(BigInt(priceAtomic), BigPow(<<1, 0>>, decimals))
    ELSE BigInt(priceAtomic)

\* basePriceAtomic scaled from 6 decimals to the token's:
\* `decimalDiff > 0 ? basePriceAtomic * 10n ** BigInt(decimalDiff) : basePriceAtomic`.
RequiredAmount(priceAtomic, decimals) ==
    LET basePriceAtomic == BigInt(priceAtomic)
        decimalDiff == decimals - 6
    IN IF decimalDiff > 0
       THEN BigMul(basePriceAtomic, BigPow(<<1, 0>>, decimalDiff))
       ELSE basePriceAtomic

\* The route prices (priceAtomic, a decimal string), the token decimals of
\* the networks, and the authorization.value strings clients sign.
Prices ==
    {<<"0">>, <<"1">>, <<"7">>, <<"0", "1", "0">>, <<"9", "9", "9">>,
     <<"1", "0", "0", "0", "0">>, <<"1", "0", "0", "0", "0", "0", "0">>}
TokenDecimals == {0, 6, 7, 9, 18}
Values == {BigIntToString(RequiredAmount(p, d)) : p \in Prices, d \in {6, 7, 18}}
NoAmount == <<>>

\* A payment that fails the amount check.
Insufficient_Never(value, requiredAmount) == FALSE

\* `BigInt(authorization.value) < requiredAmount`.
Insufficient(value, requiredAmount) == BigLess(BigInt(value), requiredAmount)

InitPrice ==
    /\ now = 0
    /\ ticks = 0
    /\ nonceDb = [k \in Keys |-> NoEntry]
    /\ idempotencyDb = [p \in PaymentIds |-> NoCache]
    /\ reqs = [s \in Slots |-> IdleReq]
    /\ started = 0
    /\ sent = IdleReq
    /\ ledger = {}
    /\ SvmLoaded
    /\ \E x \in Paths, p \in Prices, d \in TokenDecimals, v \in Values :
          pricing = [pc |-> "start", path |-> x, priceAtomic |-> p,
                     decimals |-> d, value |-> v, amount |-> NoAmount,
                     required |-> NoAmount, transferValue |-> NoAmount]
    /\ call = NoCall

\* buildPaymentRequired's entry of the accepts list for the network.
BuildPaymentRequired ==
    /\ pricing.pc = "start"
    /\ pricing' = [pricing EXCEPT
          !.pc = "quoted",
          !.amount = BigIntToString(RequiredAmount(pricing.priceAtomic,
                                                   pricing.decimals))]
    /\ UNCHANGED <<gatewayVars, svmVars, call>>

\* Verification of a payment for the route.  verifyPaymentEvm compares
\* authorization.value with the required amount itself; the SVM adapter and
\* the external facilitator are handed the required amount as a string and
\* answer `valid`, which also stands for verifyPaymentEvm's other checks.
VerifyAmount(valid) ==
    LET requiredAmount == RequiredAmount(pricing.priceAtomic, pricing.decimals)
        fails == pricing.path = "evm" /\ Insufficient(pricing.value, requiredAmount)
    IN /\ pricing.pc = "quoted"
       /\ pricing' = [pricing EXCEPT
             !.pc = IF fails THEN "insufficient"
                    ELSE IF valid THEN "verified" ELSE "rejected",
             !.required = IF pricing.path = "evm" THEN NoAmount
                          ELSE BigIntToString(requiredAmount)]
       /\ UNCHANGED <<gatewayVars, svmVars, call>>

\* Settlement of a verified payment: settlePaymentEvm passes
\* BigInt(authorization.value) to transferWithAuthorization; settlePaymentSvm
\* and settlePaymentViaFacilitator hand the required amount to the settler.
SettleAmount(ok) ==
    /\ pricing.pc = "verified"
    /\ pricing' = [pricing EXCEPT
          !.pc = IF ok THEN "settled" ELSE "failed",
          !.transferValue = IF pricing.path = "evm" THEN BigInt(pricing.value)
                            ELSE NoAmount,
          !.required = IF pricing.path = "evm" THEN NoAmount
                       ELSE BigIntToString(RequiredAmount(pricing.priceAtomic,
                                                          pricing.decimals))]
    /\ UNCHANGED <<gatewayVars, svmVars, call>>

NextPrice ==
    \/ BuildPaymentRequired
    \/ \E valid \in BOOLEAN : VerifyAmount(valid)
    \/ \E ok \in BOOLEAN : SettleAmount(ok)

\* One route price on one network: advertised, verified against, settled.
SpecPrice == InitPrice /\ [][NextPrice]_vars

\* ------------------------------------------- extractPaymentIdentifier
\* A JSON string is the sequence of its characters.  A JSON value is a
\* record: its type, its characters when it is a string, and the members
\* the code reads when it is an object.
IdChars ==
    {"a", "b", "c", "d", "e", "f", "g", "h", "i", "j", "k", "l", "m",
     "n", "o", "p", "q", "r", "s", "t", "u", "v", "w", "x", "y", "z",
     "A", "B", "C", "D", "E", "F", "G", "H", "I", "J", "K", "L", "M",
     "N", "O", "P", "Q", "R", "S", "T", "U", "V", "W", "X", "Y", "Z",
     "0", "1", "2", "3", "4", "5", "6", "7", "8", "9", "_", "-"}

JsUndefined == [type |-> "undefined", chars |-> <<>>]
JsNull == [type |-> "null", chars |-> <<>>]
JsNumber == [type |-> "number", chars |-> <<>>]
JsString(chars) == [type |-> "string", chars |-> chars]

\* The string of n characters that repeats `pattern`.
Repeat(pattern, n) == [i \in 1..n |-> pattern[((i - 1) % Len(pattern)) + 1]]

\* What clients put at `paymentId`: nothing, null, a number, and strings
\* around the two length limits and with characters outside the class.
PaymentIdValues ==
    {JsUndefined, JsNull, JsNumber, JsString(<<>>),
     JsString(Repeat(<<"a">>, 15)), JsString(Repeat(<<"a">>, 16)),
     JsString(Repeat(<<"t", "E", "5", "_", "-">>, 24)),
     JsString(Repeat(<<"Z", "9">>, 128)), JsString(Repeat(<<"a">>, 129)),
     JsString(Repeat(<<"i", "d", "!">>, 18)),
     JsString(Repeat(<<"i", "d", " ">>, 18))}

\* An `extensions` member: absent, null, false, or an object, which has a
\* "payment-identifier" member (an object with that paymentId) or has none.
NoExtensions == [type |-> "undefined", hasId |-> FALSE, paymentId |-> JsUndefined]

ExtensionsValues ==
    {NoExtensions,
     [type |-> "null", hasId |-> FALSE, paymentId |-> JsUndefined],
     [type |-> "false", hasId |-> FALSE, paymentId |-> JsUndefined],
     [type |-> "object", hasId |-> FALSE, paymentId |-> JsUndefined]}
    \cup {[type |-> "object", hasId |-> TRUE, paymentId |-> v] :
             v \in PaymentIdValues}

\* The decoded header as extractPaymentIdentifier reads it: null, a number,
\* or an object with `extensions` and with `payload` absent, null or an
\* object that has `extensions` in turn.
NoInner == [type |-> "undefined", extensions |-> NoExtensions]

ExtractorInputs ==
    {[type |-> t, extensions |-> NoExtensions, payload |-> NoInner] :
        t \in {"null", "number"}}
    \cup {[type |-> "object", extensions |-> x, payload |-> NoInner] :
             x \in ExtensionsValues}
    \cup {[type |-> "object", extensions |-> x,
           payload |-> [type |-> "null", extensions |-> NoExtensions]] :
             x \in ExtensionsValues}
    \cup {[type |-> "object", extensions |-> x,
           payload |-> [type |-> "object", extensions |-> y]] :
             x \in ExtensionsValues, y \in ExtensionsValues}

\* `id.length >= 16 && id.length <= 128 && /^[a-zA-Z0-9_-]+$/.test(id)`.
IdTest(id) ==
    /\ Len(id) >= 16
    /\ Len(id) <= 128
    /\ Len(id) >= 1
    /\ \A i \in 1..Len(id) : id[i] \in IdChars

\* extractPaymentIdentifier.  Reading a member of null raises a TypeError,
\* which the catch block turns into null; a member of a number is
\* undefined.  `a ?? b` is b when a is undefined or null; `!extensions`
\* holds of undefined, null and false.
extractPaymentIdentifier(paymentPayload) ==
    IF paymentPayload.type = "null" THEN JsNull
    ELSE
    LET top == IF paymentPayload.type = "object"
               THEN paymentPayload.extensions ELSE NoExtensions
        inner == IF paymentPayload.type = "object"
                    /\ paymentPayload.payload.type = "object"
                 THEN paymentPayload.payload.extensions ELSE NoExtensions
        extensions == IF top.type \in {"undefined", "null"} THEN inner ELSE top
        id == extensions.paymentId
    IN IF extensions.type \in {"undefined", "null", "false"} THEN JsNull
       ELSE IF /\ extensions.hasId
               /\ id.type = "number" \/ (id.type = "string" /\ id.chars # <<>>)
               /\ id.type = "string"
               /\ IdTest(id.chars)
       THEN id
       ELSE JsNull

InitExtract ==
    /\ now = 0
    /\ ticks = 0
    /\ nonceDb = [k \in Keys |-> NoEntry]
    /\ idempotencyDb = [p \in PaymentIds |-> NoCache]
    /\ reqs = [s \in Slots |-> IdleReq]
    /\ started = 0
    /\ sent = IdleReq
    /\ ledger = {}
    /\ SvmLoaded
    /\ pricing = NoPricing
    /\ \E p \in ExtractorInputs :
          call = [pc |-> "decoded", paymentPayload |-> p, paymentId |-> JsUndefined]

\* `const paymentId = extractPaymentIdentifier(paymentPayload)`.
ExtractId ==
    /\ call.pc = "decoded"
    /\ call' = [call EXCEPT !.pc = "extracted",
                            !.paymentId = extractPaymentIdentifier(call.paymentPayload)]
    /\ UNCHANGED <<gatewayVars, svmVars, pricing>>

\* extractPaymentIdentifier applied to one decoded header.
SpecExtract == InitExtract /\ [][ExtractId]_vars

\* ------------------------------------------------ one call of withPayment
\* One call of the handler withPayment returns, followed from the request to
\* the response.  What the store, the verifiers, the settlers and the inner
\* handler answer are inputs; `ops` lists the calls made for the request.

\* ROUTE_CONFIG's keys.
RouteKeys == {"myapi"}
\* The route's priceAtomic and payTo.
RoutePriceAtomic == <<"1", "0", "0", "0", "0">>
RoutePayTo == "0xpayto"

\* SUPPORTED_NETWORKS: the active networks, keyed by CAIP-2 identifier, with
\* the path isSvmNetwork and network.facilitator select.
Undefined == "undefined"
SUPPORTED_NETWORKS ==
    [n \in {"eip155:8453", "eip155:4326", "solana:5eykt4UsFv8P8NJdTREpY1vzqKqZKvdp"} |->
        IF n = "eip155:8453" THEN "evm" ELSE IF n = "eip155:4326" THEN "fac" ELSE "svm"]

\* authorization: absent, or an object whose `value` is absent, a decimal
\* string or not a number, whose `to` is absent, the route's payTo or
\* another address, and whose `nonce` is a 32-byte value or the empty string.
UndefinedValue == <<Undefined>>
NoAuthorization == [type |-> Undefined, value |-> UndefinedValue, to |-> Undefined,
                    nonce |-> Undefined]
Authorizations ==
    {NoAuthorization}
    \cup {[type |-> "object", value |-> v, to |-> t, nonce |-> n] :
             v \in {UndefinedValue, RoutePriceAtomic, <<"9", "9", "9", "9">>,
                    <<"1", "x">>},
             t \in {Undefined, RoutePayTo, "0xother"},
             n \in {"0xn1", ""}}

\* The `payload` member of the decoded header.
InnerPayload(auth, signature, transaction, extensions) ==
    [type |-> "object", extensions |-> extensions, authorization |-> auth,
     signature |-> signature, transaction |-> transaction]
NoInnerPayload ==
    [type |-> Undefined, extensions |-> NoExtensions,
     authorization |-> NoAuthorization, signature |-> FALSE, transaction |-> FALSE]

\* What JSON.parse(Buffer.from(header, "base64").toString()) gives: a
\* SyntaxError, or a JSON value, of which the code reads these members.
Json(type, scheme, network, extensions, payload) ==
    [type |-> type, scheme |-> scheme, network |-> network,
     extensions |-> extensions, payload |-> payload]
NotJson == Json("SyntaxError", Undefined, Undefined, NoExtensions, NoInnerPayload)

\* A valid payment identifier, at either place.
SomeId == [type |-> "object", hasId |-> TRUE,
           paymentId |-> JsString(Repeat(<<"a">>, 16))]

\* The JSON values clients send: values that are no object; objects for the
\* EVM-local network with every combination of missing members; objects for
\* the facilitator and SVM networks; objects for no active network.
DecodedValues ==
    {Json(t, Undefined, Undefined, NoExtensions, NoInnerPayload) :
        t \in {"null", "number", "string", "array"}}
    \cup {Json("object", s, "eip155:8453", x, NoInnerPayload) :
             s \in {Undefined, "exact"}, x \in {NoExtensions, SomeId}}
    \cup {Json("object", s, "eip155:8453", NoExtensions,
               InnerPayload(a, g, FALSE, y)) :
             s \in {Undefined, "exact", "other"}, a \in Authorizations,
             g \in BOOLEAN, y \in {NoExtensions, SomeId}}
    \cup {Json("object", s, "eip155:4326", x, p) :
             s \in {Undefined, "exact"}, x \in {NoExtensions, SomeId},
             p \in {NoInnerPayload,
                    InnerPayload([type |-> "object", value |-> RoutePriceAtomic,
                                  to |-> RoutePayTo, nonce |-> "0xn1"],
                                 TRUE, FALSE, NoExtensions)}}
    \cup {Json("object", "exact", "solana:5eykt4UsFv8P8NJdTREpY1vzqKqZKvdp", x, p) :
             x \in {NoExtensions, SomeId},
             p \in {NoInnerPayload} \cup
                   {InnerPayload(NoAuthorization, FALSE, t, NoExtensions) :
                       t \in BOOLEAN}}
    \cup {Json("object", s, n, x, p) :
             s \in {Undefined, "exact"}, n \in {"eip155:99999", Undefined},
             x \in {NoExtensions, SomeId},
             p \in {NoInnerPayload,
                    InnerPayload(NoAuthorization, FALSE, FALSE, NoExtensions)}}

\* req.headers.get(name): null, or the header's value, which is empty or a
\* text; `text` is what decoding and parsing make of it.
HeaderAbsent == [type |-> "null", empty |-> FALSE, text |-> NotJson]
HeaderEmpty == [type |-> "string", empty |-> TRUE, text |-> NotJson]
Header(json) == [type |-> "string", empty |-> FALSE, text |-> json]
HeaderValues == {HeaderAbsent, HeaderEmpty, Header(NotJson)}
                    \cup {Header(j) : j \in DecodedValues}
\* The second header of the requests that carry two.
OtherHeaders ==
    {HeaderAbsent, HeaderEmpty, Header(NotJson),
     Header(Json("object", "exact", "eip155:99999", NoExtensions, NoInnerPayload))}

\* CORS_HEADERS: the names of the three headers.
CORS_HEADERS ==
    {"Access-Control-Allow-Origin", "Access-Control-Allow-Methods",
     "Access-Control-Allow-Headers"}

\* The call before its first step.
NewCall(method, routeKey, paymentSignature, xPayment) ==
    [pc |-> "start", method |-> method, routeKey |-> routeKey,
     paymentSignature |-> paymentSignature, xPayment |-> xPayment,
     paymentHeader |-> HeaderAbsent, paymentPayload |-> NotJson,
     paymentId |-> JsNull, idemHit |-> FALSE, path |-> "none",
     nonceKey |-> FALSE, verdict |-> "none",
     status |-> 0, error |-> <<>>, reason |-> <<>>, payReq |-> FALSE,
     x402Version |-> 0, accepts |-> FALSE, header |-> FALSE, payResp |-> FALSE,
     cors |-> {}, handlerCors |-> {}, thrown |-> "none", ops |-> <<>>]

\* One more call made for the request.
Did(c, op) == [c EXCEPT !.ops = Append(c.ops, op)]

\* corsJsonWithHeaders(body, status): a response without PAYMENT-REQUIRED,
\* with `...CORS_HEADERS`, as the 204 has them.
Reply(c, status, error, reason) ==
    [c EXCEPT !.pc = "done", !.status = status, !.error = error,
              !.reason = reason, !.cors = CORS_HEADERS]

\* A 402 that is sent without calling buildPaymentRequired.
Quote_Bare(c, error, reason) == Reply(c, 402, error, reason)

\* buildPaymentRequired, and the 402 made of what it returns: `...body`
\* (x402Version 2, accepts, resource, extensions) with the error, and the
\* PAYMENT-REQUIRED header.
Quote(c, error, reason) ==
    [Reply(Did(c, "buildPaymentRequired"), 402, error, reason) EXCEPT
        !.payReq = TRUE, !.x402Version = 2, !.accepts = TRUE]

\* An exception leaves verifyAndSettlePayment, and withPayment with it.
Throw(c, name) == [c EXCEPT !.pc = "done", !.thrown = name]

\* `req.headers.get("payment-signature") ?? req.headers.get("x-payment")`.
PaymentHeaderOf(paymentSignature, xPayment) ==
    IF paymentSignature.type # "null" THEN paymentSignature ELSE xPayment

\* A test that finds a payment header in every request.
NoPaymentHeader_Never(paymentHeader) == FALSE

\* `!paymentHeader`: null or the empty string.
NoPaymentHeader(paymentHeader) ==
    paymentHeader.type = "null" \/ paymentHeader.empty

\* A decoder that takes every header for JSON.
DecodeFails_Never(paymentHeader) == FALSE

\* The try block around JSON.parse(Buffer.from(...).toString()) raises.
DecodeFails(paymentHeader) == paymentHeader.text.type = "SyntaxError"

\* A lookup that finds every network.
NetworkOf_Any(paymentPayload) == "eip155:8453"

\* `paymentPayload.network`: undefined on a value that is no object.
NetworkOf(paymentPayload) ==
    IF paymentPayload.type = "object" THEN paymentPayload.network ELSE Undefined

\* "Resolve network", for a payload that missed the idempotency cache: a
\* member read on null raises; an unknown network is answered here.
ResolveNetwork(c) ==
    LET network == NetworkOf(c.paymentPayload)
    IN IF c.paymentPayload.type = "null" THEN Throw(c, "TypeError")
       ELSE IF network \notin DOMAIN SUPPORTED_NETWORKS
       THEN Reply(c, 402, <<"Unsupported network">>,
                  <<"Network", network, "is not supported">>)
       ELSE [c EXCEPT !.pc = "verify", !.path = SUPPORTED_NETWORKS[network]]

\* A route lookup that knows every key.
KnownRoute_Any(routeKey) == TRUE

\* `ROUTE_CONFIG[routeKey]` is defined.
KnownRoute(routeKey) == routeKey \in RouteKeys

\* withPayment and verifyAndSettlePayment up to the first store access.
EnterCall(c) ==
    LET paymentHeader == PaymentHeaderOf(c.paymentSignature, c.xPayment)
        paymentPayload == paymentHeader.text
        paymentId == extractPaymentIdentifier(paymentPayload)
        d == [c EXCEPT !.paymentHeader = paymentHeader,
                       !.paymentPayload = paymentPayload,
                       !.paymentId = paymentId]
    IN IF c.method = "OPTIONS" THEN Reply(c, 204, <<>>, <<>>)
       ELSE IF ~KnownRoute(c.routeKey)
       THEN Reply(c, 500, <<"Unknown route", c.routeKey>>, <<>>)
       ELSE IF NoPaymentHeader(paymentHeader)
       THEN Quote(c, <<"Payment required">>, <<>>)
       ELSE IF DecodeFails(paymentHeader)
       THEN Reply([c EXCEPT !.paymentHeader = paymentHeader], 400,
                  <<"Invalid payment payload encoding">>, <<>>)
       ELSE IF paymentId # JsNull THEN [d EXCEPT !.pc = "idempotency"]
       ELSE ResolveNetwork(d)

\* `BigInt(authorization.value)` raises: of undefined, of a string that is
\* no number.
BigIntRaises(value) ==
    \E i \in 1..Len(value) : value[i] \notin {DigitChars[k] : k \in 1..10}

\* The 402 of a failed verification.
Rejected(c, reason) ==
    Quote([c EXCEPT !.verdict = "invalid"], <<"Payment verification failed">>, reason)

\* What one check of verifyPaymentEvm makes of the payload: it passes, it
\* returns `{valid: false, reason}`, or it raises.
Pass == [kind |-> "pass", reason |-> <<>>, thrown |-> "none"]
Fail(reason) == [kind |-> "reject", reason |-> reason, thrown |-> "none"]
Raise(name) == [kind |-> "throw", reason |-> <<>>, thrown |-> name]

\* `now < Number(validAfter)`, then `now > Number(validBefore)`.
Window(t, validAfter, validBefore) ==
    IF t < validAfter THEN "not_yet" ELSE IF t > validBefore THEN "expired"
    ELSE "valid"

\* The checks of verifyPaymentEvm that precede getNonce, one by one.
\* BigInt of an absent or malformed value and toLowerCase of an absent `to`
\* raise outside any try block.  `payTo` is the route's, Undefined when no
\* address is configured; `window` is what the two comparisons with the
\* clock give.
EvmCheck(name, p, payTo, window) ==
    LET authorization == p.payload.authorization
    IN CASE name = "present" ->
               IF authorization.type = Undefined \/ ~p.payload.signature
               THEN Fail(<<"Missing authorization or signature">>) ELSE Pass
         [] name = "scheme" ->
               IF p.scheme # "exact" THEN Fail(<<"Unsupported scheme", p.scheme>>)
               ELSE Pass
         [] name = "amount" ->
               IF BigIntRaises(authorization.value)
               THEN Raise(IF authorization.value = UndefinedValue THEN "TypeError"
                          ELSE "SyntaxError")
               ELSE IF Insufficient(authorization.value,
                                    RequiredAmount(RoutePriceAtomic, 6))
               THEN Fail(<<"Insufficient payment">>) ELSE Pass
         [] name = "recipient" ->
               IF payTo = Undefined THEN Fail(<<"No payTo address configured">>)
               ELSE IF authorization.to = Undefined THEN Raise("TypeError")
               ELSE IF authorization.to # payTo THEN Fail(<<"Wrong recipient">>)
               ELSE Pass
         [] name = "window" ->
               IF window = "not_yet" THEN Fail(<<"Payment not yet valid">>)
               ELSE IF window = "expired" THEN Fail(<<"Payment expired">>)
               ELSE Pass

\* A verifier that compares the amount before it looks at the scheme.
EvmCheckOrder_AmountFirst == <<"present", "amount", "scheme", "recipient", "window">>

\* The order of the statements in verifyPaymentEvm.
EvmCheckOrder == <<"present", "scheme", "amount", "recipient", "window">>

\* The checks run in order up to the first that does not pass.
RECURSIVE FirstOutcome(_, _, _, _)
FirstOutcome(order, p, payTo, window) ==
    IF order = <<>> THEN Pass
    ELSE LET o == EvmCheck(Head(order), p, payTo, window)
         IN IF o.kind # "pass" THEN o
            ELSE FirstOutcome(Tail(order), p, payTo, window)

\* verifyPaymentEvm up to getNonce.  Destructuring an absent `payload`
\* raises before the first check.
EvmFieldChecks(p, payTo, window) ==
    IF p.payload.type = Undefined THEN Raise("TypeError")
    ELSE FirstOutcome(EvmCheckOrder, p, payTo, window)

\* verifyPaymentEvm up to getNonce, for the call: the route has its payTo;
\* `inWindow` is whether the clock is within the authorization's window.
VerifyPaymentEvm(c, inWindow) ==
    LET o == EvmFieldChecks(c.paymentPayload, RoutePayTo,
                            IF inWindow THEN "valid" ELSE "expired")
    IN IF o.kind = "throw" THEN Throw(c, o.thrown)
       ELSE IF o.kind = "reject" THEN Rejected(c, o.reason)
       ELSE [c EXCEPT !.pc = "nonce"]

\* `if (nonceKey)`: on the SVM path the hash of payload.transaction when
\* that is present and not empty, on the EVM-local path
\* `payload?.authorization?.nonce ?? null` when that is not empty, null on
\* the facilitator path.
HasNonceKey(path, payload) ==
    IF path = "svm" THEN payload.transaction
    ELSE IF path = "evm" THEN payload.authorization.nonce \notin {Undefined, ""}
    ELSE FALSE

\* "Mark nonce as pending": the key of a verified payment, and the claim
\* when there is one.
Verified(c) ==
    LET nonceKey == HasNonceKey(c.path, c.paymentPayload.payload)
    IN [c EXCEPT !.verdict = "valid", !.nonceKey = nonceKey,
                 !.pc = IF nonceKey THEN "claim" ELSE "settle"]

\* What follows the settlement and each write after it.
AfterSettled(c, from) ==
    IF from = "settle" /\ c.nonceKey THEN [c EXCEPT !.pc = "confirm"]
    ELSE IF from # "cache" /\ c.paymentId # JsNull THEN [c EXCEPT !.pc = "cache"]
    ELSE [c EXCEPT !.pc = "handler"]

CallEnter ==
    /\ call.pc = "start"
    /\ call' = EnterCall(call)
    /\ UNCHANGED <<gatewayVars, svmVars, pricing>>

\* getIdempotencyCache: a miss, a record with the header, a record without.
CallIdempotency(cached) ==
    LET c == Did(call, "getIdempotencyCache")
    IN /\ call.pc = "idempotency"
       /\ call' = IF cached = "miss" THEN ResolveNetwork(c)
                  ELSE [c EXCEPT !.pc = "handler", !.idemHit = TRUE,
                                 !.header = (cached = "hit")]
       /\ UNCHANGED <<gatewayVars, svmVars, pricing>>

\* The verifier of the path.  verifyPaymentSvm awaits getSvmFacilitator
\* outside its try block: `ready` is whether that promise is fulfilled.
\* `valid` is what the SVM adapter or the external facilitator answers.
CallVerify(ready, valid, inWindow) ==
    LET c == Did(call, "verify")
    IN /\ call.pc = "verify"
       /\ call' = IF call.path = "evm" THEN VerifyPaymentEvm(c, inWindow)
                  ELSE IF call.path = "svm" /\ ~ready THEN Throw(c, "Error")
                  ELSE IF valid THEN Verified(c)
                  ELSE Rejected(c, <<"verifier's reason">>)
       /\ UNCHANGED <<gatewayVars, svmVars, pricing>>

\* verifyPaymentEvm from getNonce on: the record found, the signature and
\* the balance (`ok`).
CallNonce(existing, ok) ==
    LET c == Did(call, "getNonce")
    IN /\ call.pc = "nonce"
       /\ call' = IF existing THEN Rejected(c, <<"Nonce already used">>)
                  ELSE IF ~ok THEN Rejected(c, <<"Signature does not match sender">>)
                  ELSE Verified(c)
       /\ UNCHANGED <<gatewayVars, svmVars, pricing>>

\* setNoncePending and the 402 of a lost claim.
CallClaim(acquired) ==
    LET c == Did(call, "setNoncePending")
    IN /\ call.pc = "claim"
       /\ call' = IF acquired THEN [c EXCEPT !.pc = "settle"]
                  ELSE Reply(c, 402, <<"Payment verification failed">>,
                             <<"Nonce already used or settlement in progress">>)
       /\ UNCHANGED <<gatewayVars, svmVars, pricing>>

\* The settler of the path returns or raises.
CallSettle(ok) ==
    LET c == Did(call, "settle")
    IN /\ call.pc = "settle"
       /\ call' = IF ok THEN AfterSettled([c EXCEPT !.header = TRUE], "settle")
                  ELSE IF c.nonceKey THEN [c EXCEPT !.pc = "release"]
                  ELSE Reply(c, 402, <<"Payment settlement failed">>,
                             <<"settler's message">>)
       /\ UNCHANGED <<gatewayVars, svmVars, pricing>>

CallConfirm ==
    /\ call.pc = "confirm"
    /\ call' = AfterSettled(Did(call, "setNonceConfirmed"), "confirm")
    /\ UNCHANGED <<gatewayVars, svmVars, pricing>>

CallCache ==
    /\ call.pc = "cache"
    /\ call' = AfterSettled(Did(call, "setIdempotencyCache"), "cache")
    /\ UNCHANGED <<gatewayVars, svmVars, pricing>>

\* deleteNonce in the catch block, and the 402.
CallRelease ==
    /\ call.pc = "release"
    /\ call' = Reply(Did(call, "deleteNonce"), 402, <<"Payment settlement failed">>,
                     <<"settler's message">>)
    /\ UNCHANGED <<gatewayVars, svmVars, pricing>>

\* A wrapper that returns the handler's headers as they are.
ResponseHeaders_AsReturned(names, paymentResponseHeader) == names

\* The CORS headers of what withPayment returns for a handler response that
\* has those of `names`: with a PAYMENT-RESPONSE header to set, the headers
\* are copied and each CORS header the copy has not is set; without one the
\* response is returned as it is.
ResponseHeaders(names, paymentResponseHeader) ==
    IF paymentResponseHeader THEN names \cup CORS_HEADERS ELSE names

\* The inner handler returns a response with the CORS headers `names`, on
\* which PAYMENT-RESPONSE is set when the result has a header, or it raises
\* (the backend fetch fails).
CallHandler(status, raises, names) ==
    LET c == Did(call, "handler")
    IN /\ call.pc = "handler"
       /\ call' = IF raises THEN Throw(c, "handler")
                  ELSE [c EXCEPT !.pc = "done", !.status = status,
                                 !.payResp = c.header, !.handlerCors = names,
                                 !.cors = ResponseHeaders(names, c.header)]
       /\ UNCHANGED <<gatewayVars, svmVars, pricing>>

\* The requests: every header value in one of the two headers, with an
\* absent, empty or other value in the other one.
InitCall ==
    /\ now = 0
    /\ ticks = 0
    /\ nonceDb = [k \in Keys |-> NoEntry]
    /\ idempotencyDb = [p \in PaymentIds |-> NoCache]
    /\ reqs = [s \in Slots |-> IdleReq]
    /\ started = 0
    /\ sent = IdleReq
    /\ ledger = {}
    /\ SvmLoaded
    /\ pricing = NoPricing
    /\ \E method \in {"OPTIONS", "GET"}, routeKey \in RouteKeys \cup {"nonexistent"},
          h \in HeaderValues, o \in OtherHeaders :
          \/ call = NewCall(method, routeKey, h, o)
          \/ call = NewCall(method, routeKey, o, h)

NextCall ==
    \/ CallEnter
    \/ \E cached \in {"miss", "hit", "hit_no_header"} : CallIdempotency(cached)
    \/ \E ready \in BOOLEAN, valid \in BOOLEAN, inWindow \in BOOLEAN :
          CallVerify(ready, valid, inWindow)
    \/ \E existing \in BOOLEAN, ok \in BOOLEAN : CallNonce(existing, ok)
    \/ \E acquired \in BOOLEAN : CallClaim(acquired)
    \/ \E ok \in BOOLEAN : CallSettle(ok)
    \/ CallConfirm
    \/ CallCache
    \/ CallRelease
    \/ \E status \in HandlerStatuses, raises \in BOOLEAN, names \in SUBSET CORS_HEADERS :
          CallHandler(status, raises, names)

\* One request through the wrapper.
SpecCall == InitCall /\ [][NextCall]_vars

\* ------------------------------------------- verifyPaymentEvm on its own
\* One call of verifyPaymentEvm, followed from check to check.  The payload,
\* the route's payTo, the record the store holds for the nonce, what the
\* verifying library answers and what the balance read answers are drawn at
\* the start and kept in the call, and `ops` lists the reads made.

\* The EVM-local payloads: without `payload`, and with every combination of
\* authorization, signature and scheme.
EvmPayloads ==
    {Json("object", "exact", "eip155:8453", NoExtensions, NoInnerPayload)}
    \cup {Json("object", s, "eip155:8453", NoExtensions,
               InnerPayload(a, g, FALSE, NoExtensions)) :
             s \in {"exact", "other"}, a \in Authorizations, g \in BOOLEAN}

\* verifyPaymentEvm returns `{valid: false, reason}`.
Invalid(c, reason) == [c EXCEPT !.pc = "returned", !.verdict = "invalid",
                                !.reason = reason]

\* verifyPaymentEvm from its first statement to getNonce.
VerifyFields ==
    LET o == EvmFieldChecks(call.paymentPayload, call.payTo,
                            Window(now, call.validAfter, call.validBefore))
    IN /\ call.pc = "fields"
       /\ call' = IF o.kind = "throw"
                  THEN [call EXCEPT !.pc = "returned", !.thrown = o.thrown]
                  ELSE IF o.kind = "reject" THEN Invalid(call, o.reason)
                  ELSE [call EXCEPT !.pc = "getNonce"]
       /\ UNCHANGED <<gatewayVars, svmVars, pricing>>

\* `const existing = await getNonce(authorization.nonce)`.
VerifyNonce ==
    LET c == Did(call, "getNonce")
    IN /\ call.pc = "getNonce"
       /\ call' = IF c.existing # "none"
                  THEN Invalid(c, <<"Nonce already used", c.existing>>)
                  ELSE [c EXCEPT !.pc = "verifyTypedData"]
       /\ UNCHANGED <<gatewayVars, svmVars, pricing>>

\* The try block around verifyTypedData: true, false, or an exception, which
\* the catch block turns into a reason.
VerifySignature ==
    LET c == Did(call, "verifyTypedData")
    IN /\ call.pc = "verifyTypedData"
       /\ call' = IF c.signature = "invalid"
                  THEN Invalid(c, <<"Signature does not match sender">>)
                  ELSE IF c.signature = "raises"
                  THEN Invalid(c, <<"Signature verification failed">>)
                  ELSE [c EXCEPT !.pc = "checkBalance"]
       /\ UNCHANGED <<gatewayVars, svmVars, pricing>>

\* checkBalance: the balanceOf read; a failed read counts as sufficient.
VerifyBalance ==
    LET c == Did(call, "balanceOf")
    IN /\ call.pc = "checkBalance"
       /\ call' = IF c.balance = "insufficient"
                  THEN Invalid(c, <<"Insufficient balance">>)
                  ELSE [c EXCEPT !.pc = "returned", !.verdict = "valid"]
       /\ UNCHANGED <<gatewayVars, svmVars, pricing>>

InitVerify ==
    /\ now = 1
    /\ ticks = 0
    /\ nonceDb = [k \in Keys |-> NoEntry]
    /\ idempotencyDb = [p \in PaymentIds |-> NoCache]
    /\ reqs = [s \in Slots |-> IdleReq]
    /\ started = 0
    /\ sent = IdleReq
    /\ ledger = {}
    /\ SvmLoaded
    /\ pricing = NoPricing
    /\ \E p \in EvmPayloads, payTo \in {RoutePayTo, Undefined},
          validAfter \in {0, 2}, validBefore \in {0, 3},
          existing \in {"none", "pending", "confirmed"},
          signature \in {"valid", "invalid", "raises"},
          balance \in {"sufficient", "insufficient", "read failed"} :
          call = [pc |-> "fields", paymentPayload |-> p, payTo |-> payTo,
                  validAfter |-> validAfter, validBefore |-> validBefore,
                  existing |-> existing, signature |-> signature,
                  balance |-> balance, verdict |-> "none", reason |-> <<>>,
                  thrown |-> "none", ops |-> <<>>]

NextVerify == VerifyFields \/ VerifyNonce \/ VerifySignature \/ VerifyBalance

\* verifyPaymentEvm applied to one payload.
SpecVerify == InitVerify /\ [][NextVerify]_vars

\* ============================================================ properties
\* A response the gateway built itself (the 204 of a preflight, a JSON body
\* with an `error` member), as opposed to what the handler returned.
GatewayBuilt(q) == q.pc = "done" /\ (q.kind = "options" \/ q.error # "")

\* The request went through verification, claim (when a key is derived) and
\* settlement.
Settled(q) ==
    /\ q.verified
    /\ KeyOf(q) # NoKey => q.acquired = "true"
    /\ q.settler = "ok"

\* The tasks in flight and the one whose response was just sent.
Tasks == {reqs[r] : r \in Slots} \cup {sent}

\* The reasons verifyPaymentEvm gives for a payload that fails one of its
\* other checks, before the nonce lookup or after it.
OtherCheckReasons == {"Payment expired", "Signature does not match sender"}

\* The reasons that say the nonce is taken.
NonceUsedReasons ==
    {"Nonce already used", "Nonce already used or settlement in progress"}

\* The request arrived when a confirmed record for its nonce key was stored,
\* and 7 days have not passed since that record was written.
AfterConfirmed(q) ==
    /\ q.seen.status = "confirmed"
    /\ now <= q.seen.timestamp + NONCE_CONFIRMED_TTL

\* C1: after EVM-local nonce N has been settled and its record confirmed,
\* every later request carrying N within the confirmed TTL (that misses the
\* idempotency cache and whose payload passes verifyPaymentEvm's other
\* checks) is answered 402 with a reason matching "Nonce already used", and
\* the settler is never called for it.
C1_ReplayRejected ==
    (sent.path = "evm" /\ AfterConfirmed(sent) /\ ~sent.idemHit
        /\ sent.reason \notin OtherCheckReasons)
       => /\ sent.status = 402
          /\ sent.reason \in NonceUsedReasons
          /\ sent.settler = "no"

\* C2: of two concurrent setNoncePending calls on a key that holds no record,
\* exactly one returns true and the other false, and the stored record is the
\* winner's: the losing call changes nothing.  (SpecStore: the loser is the
\* task whose 402 was just sent, the winner the task still in its slot.)
C2_ExactlyOneWinner ==
    /\ \A r, t \in Slots :
          (r # t /\ KeyOf(reqs[r]) = KeyOf(reqs[t]) /\ reqs[r].acquired = "true")
             => reqs[t].acquired # "true"
    /\ (sent.acquired = "false" /\ sent.seen = NoEntry)
          => \E r \in Slots :
                /\ KeyOf(reqs[r]) = KeyOf(sent)
                /\ reqs[r].rid # sent.rid
                /\ reqs[r].acquired = "true"
                /\ nonceDb[KeyOf(sent)].status = "pending"
                /\ nonceDb[KeyOf(sent)].meta = reqs[r].rid
                /\ nonceDb[KeyOf(sent)].expiresAt
                      = nonceDb[KeyOf(sent)].timestamp + NONCE_PENDING_TTL
    /\ \A r \in Slots :
          reqs[r].acquired = "true"
             => /\ reqs[r].seen = NoEntry
                /\ nonceDb[KeyOf(reqs[r])].meta = reqs[r].rid

\* Both calls were made on a key without a record; one has won and the other
\* has just lost.
C2_Witness ==
    /\ sent.acquired = "false"
    /\ sent.seen = NoEntry
    /\ \E r \in Slots : reqs[r].acquired = "true" /\ KeyOf(reqs[r]) = KeyOf(sent)

\* C3: of two requests with the same nonce that withPayment processes at the
\* same time, only one sees the pending-claim return true, and the one that
\* sees it return false is answered 402 with reason "Nonce already used or
\* settlement in progress".
C3_OneClaimant ==
    /\ \A r, t \in Slots :
          (r # t /\ KeyOf(reqs[r]) # NoKey /\ KeyOf(reqs[r]) = KeyOf(reqs[t])
              /\ reqs[r].acquired = "true")
             => reqs[t].acquired # "true"
    /\ sent.acquired = "false"
          => /\ sent.status = 402
             /\ sent.reason = "Nonce already used or settlement in progress"
             /\ sent.settler = "no"

\* C4: when the settler raises after a successful claim on key k, deleteNonce
\* is called exactly once before the 402 "Payment settlement failed" is
\* returned, and a setNoncePending on k made next returns true.
C4_ReleaseOnSettleFailure ==
    /\ \A r \in Slots :
          reqs[r].settler = "raised"
             => /\ reqs[r].pc = "release"
                /\ reqs[r].acquired = "true"
                /\ reqs[r].released = 0
    /\ (sent.settler = "raised" /\ sent.acquired = "true")
          => /\ sent.released = 1
             /\ sent.status = 402
             /\ sent.error = "Payment settlement failed"
             /\ sent.handlerCalls = 0
             /\ SetNoncePendingResult(KeyOf(sent))

\* The 402 of a request whose settler raised after its claim has been sent.
C4_Witness ==
    /\ sent.settler = "raised"
    /\ sent.acquired = "true"
    /\ sent.status = 402

C6_SameHeaderBytes ==
    (/\ sent.pc = "done"
     /\ sent.seenCache.status = "cached"
     /\ now <= sent.seenCache.timestamp + IDEMPOTENCY_TTL)
       => sent.payResp = sent.seenCache.response

C8_NoSecondClaim ==
    \A r \in Slots :
        AfterConfirmed(reqs[r]) => reqs[r].acquired # "true"

\* C9: a pending record whose request never reaches confirm or release stops
\* blocking once its 3600 s TTL has passed: a request that arrives after that,
\* on an EVM nonce key or an svm:sha256 key alike, and makes its
\* setNoncePending call while that record is still what the store holds and
\* its writer is gone, is told true.
C9_ExpiredPendingReclaimed ==
    (/\ sent.acquired # "na"
     /\ sent.seen.status = "pending"
     /\ sent.seenExpired
     /\ NonceAt(KeyOf(sent)) = sent.seen
     /\ \A r \in Slots : reqs[r].rid # sent.seen.meta)
       => sent.acquired = "true"

\* C10: the handler is called only for a request that hit the idempotency
\* cache or was verified, won its claim (when a key is derived) and was
\* settled; for the 204, 400, 402 and 500 the gateway builds it is not called.
C10_HandlerOnlyWhenPaid ==
    /\ \A r \in Slots : reqs[r].handlerCalls = 0
    /\ sent.handlerCalls \in {0, 1}
    /\ sent.handlerCalls = 1 => (sent.idemHit \/ Settled(sent))
    /\ GatewayBuilt(sent)
          => sent.handlerCalls = 0 /\ sent.status \in {204, 400, 402, 500}
    /\ (sent.pc = "done" /\ sent.handlerCalls = 0) => GatewayBuilt(sent)
    /\ sent.status \in {204, 400, 402} => sent.handlerCalls = 0

\* The handler has been called for a request settled under its own claim.
C10_Witness ==
    /\ sent.handlerCalls = 1
    /\ ~sent.idemHit
    /\ sent.acquired = "true"
    /\ sent.settler = "ok"

\* The store functions that write after a settlement.
WritesAfterSettlement == {"setNonceConfirmed", "setIdempotencyCache"}

\* C11: when the store raises during the pending-claim, setNoncePending
\* returns false: the request is answered 402, nothing was written for it,
\* the settler is never called for it and neither is the handler.
C11_ClaimFailsClosed ==
    /\ \A r \in Slots : "setNoncePending" \notin reqs[r].kvErrors
    /\ "setNoncePending" \in sent.kvErrors
          => /\ sent.acquired = "false"
             /\ sent.status = 402
             /\ sent.reason = "Nonce already used or settlement in progress"
             /\ sent.settler = "no"
             /\ sent.handlerCalls = 0
             /\ sent.payResp = NoHeader
             /\ NonceAt(KeyOf(sent)).meta # sent.rid

\* The claim on a nonce that no request had used raised, and the 402 was sent.
C11_Witness ==
    /\ "setNoncePending" \in sent.kvErrors
    /\ sent.seen = NoEntry
    /\ NonceAt(KeyOf(sent)) = NoEntry
    /\ sent.status = 402

\* C12: when the store raises in getNonce or getIdempotencyCache the read
\* returns null: the request goes on as for an unused nonce (to the signature
\* and balance checks, then the claim) or as for a cache miss (to
\* verification); it is not served from the cache, not told the nonce is
\* used by verifyPaymentEvm, and not failed with an error of the store.
C12_ReadsFailOpen ==
    \A q \in Tasks :
        /\ "getNonce" \in q.kvErrors
              => /\ q.existing = "none"
                 /\ q.reason # "Nonce already used"
                 /\ \/ q.verified /\ q.pc \in {"claim", "settling", "confirm",
                                               "cache", "release", "done"}
                    \/ /\ q.pc = "done"
                       /\ q.status = 402
                       /\ q.reason = "Signature does not match sender"
        /\ "getIdempotencyCache" \in q.kvErrors
              => /\ ~q.idemHit
                 /\ q.pc # "idem_remove"
                 /\ q.pc = "done"
                       => \/ q.verified
                          \/ q.status = 402
                                /\ q.error \in {"Unsupported network",
                                                "Payment verification failed"}
        /\ (q.pc = "done" /\ q.kvErrors # {} /\ q.handlerCalls = 0)
              => q.status = 402

\* Both reads raised for a request whose nonce had a live confirmed record;
\* it went on to the claim, which found the record.
C12_Witness ==
    /\ {"getNonce", "getIdempotencyCache"} \subseteq sent.kvErrors
    /\ sent.seen.status = "confirmed"
    /\ ~sent.seenExpired
    /\ sent.verified
    /\ sent.acquired = "false"

\* C13: when the store raises in setNonceConfirmed or setIdempotencyCache
\* after a successful settlement, the error is swallowed: deleteNonce is not
\* called, the handler is called once and the response carries the
\* PAYMENT-RESPONSE header of the settlement.
C13_WriteErrorsSwallowed ==
    /\ \A r \in Slots :
          reqs[r].kvErrors \cap WritesAfterSettlement # {}
             => /\ reqs[r].pc = "cache"
                /\ reqs[r].settler = "ok"
                /\ reqs[r].released = 0
    /\ sent.kvErrors \cap WritesAfterSettlement # {}
          => /\ sent.settler = "ok"
             /\ sent.released = 0
             /\ "deleteNonce" \notin sent.kvErrors
             /\ sent.handlerCalls = 1
             /\ sent.status \in HandlerStatuses
             /\ sent.error = ""
             /\ sent.payResp = PaymentResponseHeader(sent.path, sent.txHash)
             /\ sent.payResp # NoHeader

\* Both writes raised for one request, and its response carries the header.
C13_Witness ==
    /\ WritesAfterSettlement \subseteq sent.kvErrors
    /\ sent.handlerCalls = 1
    /\ sent.payResp # NoHeader

\* C14: once a settlement has been committed and recorded for a payment on a
\* path that keeps nonce records, a retry of that payment that arrives within
\* the 7 days of the record never reaches the settler, and unless it is
\* served from the idempotency cache it is answered 402.
C14_NoSecondAttempt ==
    \A q \in Tasks :
        (KeyOf(q) # NoKey /\ AfterConfirmed(q) /\ Payment(q) \in ledger)
           => /\ q.settler = "no"
              /\ (q.pc = "done" /\ ~q.idemHit) => q.status = 402

\* A change of one nonce record that the lifecycle allows: none, absent to
\* pending, pending to confirmed, a record written as confirmed where the
\* pending one was lost, pending to absent, and the removal of a record whose
\* expiry has passed.
NonceChangeAllowed(old, new) ==
    \/ new = old
    \/ old = NoEntry /\ new.status \in {"pending", "confirmed"}
    \/ old.status = "pending" /\ new.status = "confirmed"
    \/ old.status = "pending" /\ new = NoEntry
    \/ new = NoEntry /\ now > old.expiresAt

\* C15: every change of a nonce record is a claim (absent to pending), a
\* confirm (to confirmed), a release (pending to absent) or the removal of an
\* expired record; no record goes from confirmed back to pending and no
\* confirmed record is deleted before its TTL expires.
C15_NonceLifecycle ==
    [][\A k \in Keys : NonceChangeAllowed(nonceDb[k], nonceDb'[k])]_vars

\* A change of the idempotency record of p that the lifecycle allows: none,
\* a write where no live record is, by a request in flight that carries p
\* and was settled, and the removal of a record whose expiry has passed.
CacheChangeAllowed(p, old, new) ==
    \/ new = old
    \/ /\ old = NoCache \/ now > old.expiresAt
       /\ new.status = "cached"
       /\ \E r \in Slots : /\ reqs[r].pid = p
                           /\ reqs[r].settler = "ok"
                           /\ new.response = reqs[r].header
    \/ new = NoCache /\ now > old.expiresAt

\* C16: an idempotency record for paymentId p is written only after a
\* successful settlement in a request carrying p, a live record is never
\* overwritten or deleted, and a record goes only once its TTL has passed,
\* under any interleaving of requests.
C16_CacheImmutable ==
    [][\A p \in PaymentIds :
          CacheChangeAllowed(p, idempotencyDb[p], idempotencyDb'[p])]_vars

\* The store functions that touch a nonce record.
NonceFunctions == {"getNonce", "setNoncePending", "setNonceConfirmed", "deleteNonce"}

\* C17: on the EVM-facilitator path the derived nonce key is null: a request
\* on that path is never at a read, claim, confirm or delete of a nonce
\* record, whatever verification and settlement answer, and no step of such
\* a request changes the nonce database.
C17_FacilitatorNoNonce ==
    /\ [](\A q \in Tasks :
            q.path = "fac"
               => /\ KeyOf(q) = NoKey
                  /\ q.pc \notin {"nonce_get", "nonce_remove", "claim",
                                  "confirm", "release"}
                  /\ q.existing = "none"
                  /\ q.acquired = "na"
                  /\ q.released = 0
                  /\ q.kvErrors \cap NonceFunctions = {})
    /\ [][\A r \in Slots :
            (reqs[r].path = "fac" /\ reqs'[r] # reqs[r]) => nonceDb' = nonceDb]_vars

\* Facilitator-path requests have been verified and settled, one with
\* success and one with a raising settler, and no nonce record exists.
C17_Witness ==
    /\ sent.path = "fac"
    /\ sent.settler = "raised"
    /\ sent.status = 402
    /\ Payment(sent) \in ledger
    /\ \A k \in Keys : nonceDb[k] = NoEntry

\* C18: under any interleaving of callers of getSvmFacilitator at most one
\* initialization runs at a time; the callers that find one in flight await
\* that one; every caller that is given a result is given the one instance
\* and fee-payer address the module holds; and once an initialization has
\* succeeded no other is started.
C18_SingleInitialization ==
    /\ Cardinality({i \in DOMAIN promises : promises[i].state = "pending"}) <= 1
    /\ Cardinality({i \in DOMAIN promises : promises[i].state = "fulfilled"}) <= 1
    /\ \A c \in SvmCallers :
          (callers[c].pc = "await" /\ promises[callers[c].awaits].state = "pending")
             => callers[c].awaits = svmInitPromise
    /\ \A c \in SvmCallers :
          callers[c].pc = "returned"
             => /\ callers[c].facilitator # 0
                /\ callers[c].facilitator = svmFacilitator
                /\ callers[c].feePayerAddress = svmFacilitatorAddress
    /\ \A c, d \in SvmCallers :
          (callers[c].pc = "returned" /\ callers[d].pc = "returned")
             => /\ callers[c].facilitator = callers[d].facilitator
                /\ callers[c].feePayerAddress = callers[d].feePayerAddress
    /\ svmFacilitator # 0
          => /\ svmFacilitatorAddress # "null"
             /\ svmInitPromise = 0
             /\ \A i \in DOMAIN promises :
                   promises[i].state \in {"none", "fulfilled"}
                      /\ (promises[i].state = "fulfilled" => i = svmFacilitator)

\* Two callers were resumed by the one initialization they shared, and a
\* third, calling after it, was given the cached pair.
C18_Witness ==
    \E c, d, e \in SvmCallers :
        /\ c # d
        /\ callers[c].pc = "returned" /\ ~callers[c].cached
        /\ callers[d].pc = "returned" /\ ~callers[d].cached
        /\ callers[e].pc = "returned" /\ callers[e].cached
        /\ Cardinality(Started) = 1

\* The number a decimal string of a price denotes.
RECURSIVE NumberOf(_)
NumberOf(str) ==
    IF str = <<>> THEN 0
    ELSE 10 * NumberOf(SubSeq(str, 1, Len(str) - 1)) + CharValue(str[Len(str)])

\* The decimal numeral of a natural number.
RECURSIVE Numeral(_)
Numeral(n) ==
    IF n < 10 THEN <<DigitChars[n + 1]>>
    ELSE Numeral(n \div 10) \o <<DigitChars[(n % 10) + 1]>>

RECURSIVE TenTo(_)
TenTo(k) == IF k = 0 THEN 1 ELSE 10 * TenTo(k - 1)

\* n * 10^(d-6) when d > 6 and n otherwise, as a decimal numeral: the numeral
\* of n followed by d - 6 zeros (0 stays 0).
ScaledNumeral(n, d) ==
    IF d > 6 /\ n > 0 THEN Numeral(n) \o [i \in 1..(d - 6) |-> "0"]
    ELSE Numeral(n)

\* C19 (as stated): on every successful EVM-local settlement the value passed
\* to transferWithAuthorization equals the required amount.
C19_TransferEqualsRequired ==
    (pricing.pc = "settled" /\ pricing.path = "evm")
       => BigIntToString(pricing.transferValue)
             = ScaledNumeral(NumberOf(pricing.priceAtomic), pricing.decimals)

\* C19 (amended): on every successful settlement the amount handed to the
\* SVM adapter or the external facilitator as the requirement is
\* priceAtomic * 10^(decimals - 6) when decimals > 6 and priceAtomic
\* otherwise; on the EVM-local path the value passed to
\* transferWithAuthorization is authorization.value, which is at least that
\* required amount.
C19_TransferAtLeastRequired ==
    pricing.pc = "settled"
       => IF pricing.path = "evm"
          THEN /\ pricing.transferValue = BigInt(pricing.value)
               /\ ~BigLess(pricing.transferValue,
                           BigInt(ScaledNumeral(NumberOf(pricing.priceAtomic),
                                                pricing.decimals)))
          ELSE pricing.required
                  = ScaledNumeral(NumberOf(pricing.priceAtomic), pricing.decimals)

\* An EVM-local payment signed for more than the required amount was settled.
C19_Witness ==
    /\ pricing.pc = "settled"
    /\ pricing.path = "evm"
    /\ BigLess(RequiredAmount(pricing.priceAtomic, pricing.decimals),
               pricing.transferValue)

\* C20: for every base priceAtomic n and token decimals d the amount
\* advertised in the 402 accepts list is the decimal numeral of n * 10^(d-6)
\* when d > 6 and of n otherwise; priceAtomic 10000 with 18 decimals gives
\* 10000000000000000.
C20_AdvertisedAmount ==
    pricing.pc \in {"quoted", "insufficient", "verified", "rejected", "settled", "failed"}
       => LET n == NumberOf(pricing.priceAtomic)
              d == pricing.decimals
          IN /\ pricing.amount = ScaledNumeral(n, d)
             /\ d \in 7..9 => pricing.amount = Numeral(n * TenTo(d - 6))
             /\ d <= 6 => NumberOf(pricing.amount) = n
             /\ (n = 10000 /\ d = 18)
                   => pricing.amount = <<"1">> \o [i \in 1..16 |-> "0"]

\* The price 10000 has been advertised for a token of 18 decimals.
C20_Witness ==
    /\ pricing.pc = "quoted"
    /\ pricing.priceAtomic = <<"1", "0", "0", "0", "0">>
    /\ pricing.decimals = 18
    /\ Len(pricing.amount) = 17

\* The calls made for a request that touch the store, verify or settle.
StoreCalls == {"getIdempotencyCache", "getNonce", "setNoncePending",
               "setNonceConfirmed", "setIdempotencyCache", "deleteNonce"}
PaymentCalls == StoreCalls \cup {"verify", "settle"}
CallsOf(c) == {c.ops[i] : i \in 1..Len(c.ops)}

\* The request is no preflight and its route key is configured.
OnKnownRoute(c) == c.method # "OPTIONS" /\ c.routeKey \in RouteKeys
\* The header the request's envelope is read from: payment-signature when
\* the request has it, else x-payment.
SentHeader(c) ==
    IF c.paymentSignature.type = "string" THEN c.paymentSignature ELSE c.xPayment
\* The header has a value and the value decodes to JSON.
Decodable(h) == h.type = "string" /\ ~h.empty /\ h.text.type # "SyntaxError"

\* C21: every request ends with a response whose status is 204 (OPTIONS
\* only), 400 (malformed envelope only), 402, 500 (unknown route key only) or
\* the status the handler returned after a paid request; no request ends
\* with an exception leaving the wrapper (an exception raised by the inner
\* handler itself is counted as the handler's outcome).
C21_OnlyListedOutcomes ==
    call.pc = "done" =>
        /\ call.thrown \in {"none", "handler"}
        /\ call.thrown = "none" =>
            \/ "handler" \in CallsOf(call)
                  /\ (call.verdict = "valid" \/ call.idemHit)
            \/ call.status = 204 /\ call.method = "OPTIONS"
            \/ call.status = 400 /\ SentHeader(call).text.type = "SyntaxError"
            \/ call.status = 402
            \/ call.status = 500 /\ call.routeKey \notin RouteKeys

\* The decoded value lacks a member the verification reads.
LacksFields(p) ==
    \/ p.type # "object"
    \/ p.scheme = Undefined
    \/ p.network = Undefined
    \/ p.payload.type = Undefined
    \/ /\ p.payload.authorization.type = "object"
       /\ \/ p.payload.authorization.value = UndefinedValue
          \/ p.payload.authorization.to = Undefined

\* C22: a header that decodes to JSON but lacks expected members (scheme,
\* network, payload, authorization.value, authorization.to, or is no object)
\* is answered 402 with a reason and raises nothing, unless the idempotency
\* cache answers for it or the external verifier of its network accepts it.
C22_MissingFieldsRejected ==
    /\ call.pc = "done"
    /\ OnKnownRoute(call)
    /\ Decodable(SentHeader(call))
    /\ LacksFields(SentHeader(call).text)
    /\ ~call.idemHit
    /\ call.verdict # "valid"
    => /\ call.thrown = "none"
       /\ call.status = 402
       /\ call.reason # <<>>

\* The wrapper's own 402 responses.
Own402(c) == c.pc = "done" /\ c.status = 402 /\ "handler" \notin CallsOf(c)

\* C23 as stated: every 402 response the wrapper emits carries a
\* PAYMENT-REQUIRED header.
C23_Every402HasHeader == Own402(call) => call.payReq

\* C23 as the code has it: the 402 for a missing payment header and the 402
\* for a failed verification carry PAYMENT-REQUIRED; the 402 for an
\* unsupported network, a lost nonce claim and a failed settlement carry none.
C23_HeaderOnQuotedOnly ==
    Own402(call) =>
        (call.payReq <=>
            \/ call.error = <<"Payment required">>
            \/ call.error = <<"Payment verification failed">>
                  /\ call.verdict = "invalid")

C23_Witness ==
    /\ Own402(call)
    /\ call.payReq
    /\ call.verdict = "invalid"
    /\ call.reason = <<"Wrong recipient">>

\* C24: a non-OPTIONS request to a known route with neither payment header
\* is answered 402 with a PAYMENT-REQUIRED header and a body with
\* x402Version 2 and an accepts array; no store call, verification or
\* settlement is made for it.
C24_NoHeaderQuoted ==
    /\ call.pc = "done"
    /\ OnKnownRoute(call)
    /\ call.paymentSignature = HeaderAbsent
    /\ call.xPayment = HeaderAbsent
    => /\ call.status = 402
       /\ call.thrown = "none"
       /\ call.payReq
       /\ call.x402Version = 2
       /\ call.accepts
       /\ CallsOf(call) \cap (PaymentCalls \cup {"handler"}) = {}

C24_Witness ==
    /\ call.pc = "done"
    /\ call.method = "GET"
    /\ call.routeKey = "myapi"
    /\ call.paymentSignature = HeaderAbsent
    /\ call.xPayment = HeaderAbsent
    /\ call.status = 402
    /\ call.payReq

\* C25: a payment header that does not decode to JSON is answered 400
\* "Invalid payment payload encoding"; no store call, verification,
\* settlement or handler call is made for the request.
C25_BadEncoding400 ==
    /\ call.pc = "done"
    /\ OnKnownRoute(call)
    /\ SentHeader(call).type = "string"
    /\ ~SentHeader(call).empty
    /\ SentHeader(call).text.type = "SyntaxError"
    => /\ call.status = 400
       /\ call.error = <<"Invalid payment payload encoding">>
       /\ call.thrown = "none"
       /\ ~call.payReq
       /\ call.ops = <<>>

C25_Witness ==
    /\ call.pc = "done"
    /\ call.status = 400
    /\ call.xPayment = Header(NotJson)
    /\ call.paymentSignature = HeaderAbsent
    /\ call.ops = <<>>

\* The headers of the request with a non-empty value, payment-signature
\* first.
NonEmptyHeaders(c) ==
    SelectSeq(<<c.paymentSignature, c.xPayment>>,
              LAMBDA h : h.type = "string" /\ ~h.empty)

\* C26: for every combination of absent, empty and non-empty values of the
\* two headers, the envelope decoded is the first non-empty value,
\* payment-signature before x-payment, and the request is answered
\* "Payment required" only when neither header has a non-empty value.
C26_FirstNonEmptyHeader ==
    call.pc = "done" /\ OnKnownRoute(call) =>
        IF NonEmptyHeaders(call) = <<>>
        THEN call.error = <<"Payment required">>
        ELSE /\ call.error # <<"Payment required">>
             /\ call.paymentHeader = Head(NonEmptyHeaders(call))

\* C27: for a non-OPTIONS request, an unknown route key is answered 500 with
\* the error "Unknown route: <key>", whatever the payment headers hold, and
\* before any decoding, store call, verification or settlement.
C27_UnknownRoute500 ==
    call.pc = "done" /\ call.method # "OPTIONS" /\ call.routeKey \notin RouteKeys =>
        /\ call.status = 500
        /\ call.error = <<"Unknown route", call.routeKey>>
        /\ call.thrown = "none"
        /\ call.ops = <<>>
        /\ call.paymentPayload = NotJson
        /\ call.paymentId = JsNull

C27_Witness ==
    /\ call.pc = "done"
    /\ call.method = "GET"
    /\ call.routeKey = "nonexistent"
    /\ Decodable(call.paymentSignature)
    /\ call.paymentSignature.text.network = "eip155:8453"
    /\ call.status = 500

ValidIdAt(extensions) ==
    /\ extensions.type = "object"
    /\ extensions.hasId
    /\ extensions.paymentId.type = "string"
    /\ Len(extensions.paymentId.chars) \in 16..128
    /\ \A i \in 1..Len(extensions.paymentId.chars) :
          extensions.paymentId.chars[i] \in IdChars

\* C29: extractPaymentIdentifier returns the paymentId if and only if a
\* string matching ^[A-Za-z0-9_-]{16,128}$ is at
\* payload.extensions["payment-identifier"].paymentId or at
\* payload.payload.extensions["payment-identifier"].paymentId (either of the
\* two when both hold one), and returns null in every other case.
C29_ExtractsAtEitherPlace ==
    call.pc = "extracted" =>
        LET p == call.paymentPayload
            top == p.extensions
            inner == p.payload.extensions
            found == {x.paymentId : x \in {y \in {top, inner} : ValidIdAt(y)}}
        IN IF p.type = "object" /\ found # {}
           THEN call.paymentId \in found
           ELSE call.paymentId = JsNull

\* C30: after setIdempotencyCache(pid, resp) succeeds, every
\* getIdempotencyCache(pid) within the 3600 s TTL returns a record whose
\* response is resp, the same at every read: while the record of the last
\* write is within its TTL it stays as written until the next write for pid,
\* each step that reads it hands its response to the request, and the
\* record's expiry is its timestamp plus IDEMPOTENCY_TTL.
C30_PutThenGet ==
    [][\A p \in PaymentIds :
          LET rec == idempotencyDb[p]
          IN rec.status = "cached" /\ now <= rec.expiresAt /\ now' = now =>
                /\ rec.expiresAt = rec.timestamp + IDEMPOTENCY_TTL
                /\ idempotencyDb'[p] = rec \/ idempotencyDb'[p].status = "cached"
                /\ \A r \in Slots :
                      /\ reqs[r].pc = "idem_get"
                      /\ reqs[r].pid = p
                      /\ reqs'[r] # reqs[r]
                      /\ sent'.rid = reqs[r].rid \/ reqs'[r].rid = reqs[r].rid
                      => /\ sent'.rid = reqs[r].rid
                         /\ sent'.idemHit
                         /\ sent'.payResp = rec.response]_vars

\* C31: every response the wrapper returns (the 204 of a preflight, its 400,
\* 402 and 500, and the handler's response after a settlement or an
\* idempotency hit on a record that holds the header of its settlement)
\* carries Access-Control-Allow-Origin, Access-Control-Allow-Methods and
\* Access-Control-Allow-Headers, whichever of them the handler's own
\* response has.
C31_CorsOnEveryResponse ==
    /\ call.pc = "done"
    /\ call.thrown = "none"
    /\ call.idemHit => call.header
    => CORS_HEADERS \subseteq call.cors

\* The handler answered an idempotency hit with a response that has none of
\* the three headers, and the response sent has them with PAYMENT-RESPONSE.
C31_Witness ==
    /\ call.pc = "done"
    /\ call.idemHit
    /\ call.handlerCors = {}
    /\ call.payResp
    /\ call.cors = CORS_HEADERS

\* The string is a decimal numeral.
IsDecimal(str) ==
    str # <<>> /\ \A i \in 1..Len(str) : \E v \in 0..9 : DigitChars[v + 1] = str[i]

\* The checks of the list, numbered 1 to 8, that the payload of the call
\* fails: authorization and signature present, scheme, amount, recipient,
\* validity window, nonce unused, signature, balance.
FailingChecks(c) ==
    LET p == c.paymentPayload
        a == p.payload.authorization
    IN {i \in 1..8 :
          \/ i = 1 /\ (a.type = Undefined \/ ~p.payload.signature)
          \/ i = 2 /\ p.scheme # "exact"
          \/ i = 3 /\ a.type = "object" /\ IsDecimal(a.value)
                   /\ NumberOf(a.value) < NumberOf(RoutePriceAtomic)
          \/ i = 4 /\ \/ c.payTo = Undefined
                      \/ a.type = "object" /\ a.to \notin {Undefined, c.payTo}
          \/ i = 5 /\ (now < c.validAfter \/ now > c.validBefore)
          \/ i = 6 /\ c.existing # "none"
          \/ i = 7 /\ c.signature # "valid"
          \/ i = 8 /\ c.balance = "insufficient"}

\* The reasons of each check of the list, and the reads made before it.
ReasonsOfCheck ==
    <<{"Missing authorization or signature"}, {"Unsupported scheme"},
      {"Insufficient payment"},
      {"Wrong recipient", "No payTo address configured"},
      {"Payment not yet valid", "Payment expired"}, {"Nonce already used"},
      {"Signature does not match sender", "Signature verification failed"},
      {"Insufficient balance"}>>
ReadsUpTo ==
    <<<<>>, <<>>, <<>>, <<>>, <<>>, <<"getNonce">>,
      <<"getNonce", "verifyTypedData">>,
      <<"getNonce", "verifyTypedData", "balanceOf">>>>

\* C32: verifyPaymentEvm applies its checks in the order authorization and
\* signature present, scheme, amount, recipient, validity window, nonce
\* unused, signature, balance, and stops at the first failing one: for a
\* payload that fails several, the reason returned is that of the earliest
\* in this order and the reads made (store, verifying library, RPC) are
\* those that precede it; a payload that fails none is valid after all
\* three reads; a call that raises has made no read.
C32_ChecksInOrder ==
    call.pc = "returned" =>
        LET failing == FailingChecks(call)
            first == CHOOSE i \in failing : \A j \in failing : i <= j
        IN IF call.thrown # "none"
           THEN /\ call.ops = <<>>
                /\ call.paymentPayload.payload.type # Undefined
                       => failing \cap {1, 2} = {}
           ELSE IF failing = {}
           THEN call.verdict = "valid" /\ call.ops = ReadsUpTo[8]
           ELSE /\ call.verdict = "invalid"
                /\ call.reason[1] \in ReasonsOfCheck[first]
                /\ call.ops = ReadsUpTo[first]

\* A payload with another scheme, too small an amount, another recipient
\* and a window that has passed, whose nonce has a confirmed record and
\* whose signature is wrong, was rejected for its scheme before any read.
C32_Witness ==
    /\ call.pc = "returned"
    /\ {2, 3, 4, 5, 6, 7, 8} \subseteq FailingChecks(call)
    /\ call.reason = <<"Unsupported scheme", "other">>
    /\ call.ops = <<>>

\* The requests in flight that hold the license to settle key k: their
\* claim returned true and they have not yet answered.
LicenseHolders(k) ==
    {r \in Slots : reqs[r].acquired = "true" /\ KeyOf(reqs[r]) = k}

\* C33: a request confirms or deletes only the nonce record of its own
\* claim: at most one request in flight holds the license to settle a key,
\* and no step of a request deletes or overwrites the record of a key whose
\* license another request in flight holds, also when the pending TTL runs
\* out during the settlement.
C33_OwnRecordOnly ==
    /\ [](\A k \in Keys : Cardinality(LicenseHolders(k)) <= 1)
    /\ [][\A k \in Keys, r \in Slots :
            (reqs'[r] # reqs[r] /\ nonceDb'[k] # nonceDb[k])
               => LicenseHolders(k) \subseteq {r}]_vars

\* C34: on the EVM-local and SVM paths the settler is called only for a
\* request whose setNoncePending returned true before, for every payload
\* that passes verification, also one from which no key is derived (an SVM
\* payload without `transaction`, an empty authorization nonce).
C34_SettleOnlyUnderClaim ==
    \A i \in 1..Len(call.ops) :
        (call.ops[i] = "settle" /\ call.path \in {"evm", "svm"})
           => \E j \in 1..(i - 1) : call.ops[j] = "setNoncePending"

\* C35: a request that releases its nonce and answers 402 "Payment
\* settlement failed" has submitted no transfer: the step in which its
\* settler raises, and which leads it to deleteNonce, adds nothing to what
\* the chain was given.
C35_RaiseBeforeSubmit ==
    [][\A r \in Slots :
          (reqs[r].pc = "settling" /\ reqs'[r].pc = "release"
              /\ reqs'[r].settler = "raised")
             => ledger' = ledger]_vars

\* C36: the idempotency record is keyed by paymentId alone: the read of a
\* request whose paymentId has a live record sends it to the handler with
\* the record's header, without verification, claim or settlement, whatever
\* its route and the network, nonce and validity of its payload, also when
\* the record was made by a settlement on another route or network.
C36_KeyedByPaymentIdAlone ==
    [][\A r \in Slots :
          LET q == reqs[r]
              rec == CacheAt(q.pid)
          IN (q.pc = "idem_get" /\ rec.status = "cached" /\ now <= rec.expiresAt
                 /\ reqs'[r] # q)
                => /\ sent'.rid = q.rid
                   /\ sent'.idemHit
                   /\ sent'.handlerCalls = 1
                   /\ sent'.payResp = rec.response
                   /\ ~sent'.verified
                   /\ sent'.acquired = "na"
                   /\ sent'.settler = "no"
                   /\ nonceDb' = nonceDb
                   /\ ledger' = ledger]_vars

\* A request on one route, for a network that is not active, was answered
\* by the handler from the record of a settlement made on the other route.
C36_Witness ==
    /\ sent.idemHit
    /\ sent.handlerCalls = 1
    /\ sent.path = Unsupported
    /\ sent.payResp # NoHeader
    /\ sent.route # RouteOfRequest(sent.payResp[2])

\* C37: the nonce key of the EVM-local path is the authorization nonce
\* alone: while a record for nonce N is stored and has not expired, the
\* nonce lookup of a request that uses N is answered 402 "Nonce already
\* used", and its claim is answered 402 "Nonce already used or settlement
\* in progress" whenever a record is stored; the request is not settled,
\* whoever its payer and whichever its EVM-local network, also when the
\* record was made for another payer or network.
C37_NonceKeyUnscoped ==
    [][\A r \in Slots :
          LET q == reqs[r]
              rec == NonceAt(<<q.nonce>>)
          IN (/\ q.path = "evm"
              /\ q.nonce # NoNonce
              /\ reqs'[r] # q
              /\ \/ q.pc = "nonce_get" /\ rec # NoEntry /\ now <= rec.expiresAt
                 \/ q.pc = "claim" /\ rec # NoEntry)
                => /\ sent'.rid = q.rid
                   /\ sent'.status = 402
                   /\ sent'.reason \in NonceUsedReasons
                   /\ sent'.settler = "no"
                   /\ sent'.handlerCalls = 0
                   /\ nonceDb' = nonceDb
                   /\ ledger' = ledger]_vars

\* A request of one payer on one network was rejected for its nonce while
\* the record of that nonce was the pending one of a request in flight from
\* another payer on another network.
C37_Witness ==
    /\ sent.status = 402
    /\ sent.reason = "Nonce already used"
    /\ \E r \in Slots :
          /\ reqs[r].acquired = "true"
          /\ reqs[r].path = "evm"
          /\ reqs[r].nonce = sent.nonce
          /\ NonceAt(<<sent.nonce>>).meta = reqs[r].rid
          /\ reqs[r].payer # sent.payer
          /\ reqs[r].network # sent.network

\* C38: the LMDB-backed store and the Upstash-Redis-backed store give the
\* same result to every call of every sequence of getNonce, setNoncePending,
\* setNonceConfirmed, deleteNonce, getIdempotencyCache and
\* setIdempotencyCache calls, however time passes between them; so for a
\* setNoncePending on a key whose record has expired and was not read since.
C38_StoresEquivalent ==
    call.pc = "stores" => call.lmdb = call.redis

\* C39: once the initialization of the SVM facilitator has failed, its
\* rejected promise stays in _svmInitPromise for good: no step clears or
\* replaces it, no initializer is started again, nothing is cached, and every
\* getSvmFacilitator call made from then on is handed that same promise and
\* so the same failure.
C39_FailedInitKept ==
    [][(svmInitPromise # 0 /\ promises[svmInitPromise].state = "rejected")
         => /\ svmInitPromise' = svmInitPromise
            /\ promises' = promises
            /\ svmFacilitator' = 0
            /\ svmFacilitatorAddress' = "null"
            /\ \A c \in SvmCallers :
                  /\ callers'[c].calls > callers[c].calls
                        => /\ callers'[c].pc = "await"
                           /\ callers'[c].awaits = svmInitPromise
                  /\ (callers[c].pc = "await" /\ callers'[c].pc # "await")
                        => callers'[c].pc = "threw"]_vars

\* Two tasks have been given the failure of the one initialization that was
\* ever started, one of them by its second call, made after the failure
\* had been delivered to it once already.
C39_Witness ==
    /\ svmInitPromise # 0
    /\ promises[svmInitPromise].state = "rejected"
    /\ Cardinality(Started) = 1
    /\ \E c, d \in SvmCallers :
          /\ c # d
          /\ callers[c].pc = "threw" /\ callers[c].calls = 2
          /\ callers[c].awaits = svmInitPromise
          /\ callers[d].pc = "threw" /\ callers[d].awaits = svmInitPromise

\* C40: nothing is rolled back when the handler fails (it throws or
\* returns an error status, the 500 here) after a successful settlement.
\* The step that invokes the handler is the request's last: it answers with
\* the handler's status, removes no record, and changes the store by its own
\* setNonceConfirmed or setIdempotencyCache put only; the transfer stays
\* executed.  So a request with a paymentId whose record is cached and has
\* not expired is sent to the handler without a settlement, and a request
\* without paymentId on the EVM-local or the SVM path whose nonce record is
\* confirmed (and, where the nonce is looked up first, has not expired) is
\* answered 402 without a settlement.
C40_NoRollback ==
    [][\A r \in Slots :
          LET q == reqs[r]
              rec == NonceAt(KeyOf(q))
              entry == CacheAt(q.pid)
              answered == sent'.rid = q.rid /\ reqs'[r] = IdleReq
          IN /\ reqs'[r].handlerCalls = 0
             /\ (answered /\ sent'.handlerCalls = 1 /\ sent'.settler = "ok"
                    /\ sent'.status >= 400)
                  => /\ sent'.status = 500
                     /\ Payment(q) \in ledger'
                     /\ \A k \in Keys :
                           \/ nonceDb'[k] = nonceDb[k]
                           \/ /\ k = KeyOf(q)
                              /\ nonceDb'[k].status = "confirmed"
                              /\ nonceDb'[k].meta = q.rid
                     /\ \A p \in PaymentIds :
                           \/ idempotencyDb'[p] = idempotencyDb[p]
                           \/ /\ p = q.pid
                              /\ idempotencyDb'[p].status = "cached"
                              /\ idempotencyDb'[p].response = sent'.payResp
             /\ (q.pc = "idem_get" /\ entry.status = "cached"
                    /\ now <= entry.expiresAt /\ reqs'[r] # q /\ sent' # IdleReq)
                  => /\ answered
                     /\ sent'.handlerCalls = 1
                     /\ sent'.settler = "no"
                     /\ nonceDb' = nonceDb /\ idempotencyDb' = idempotencyDb
                     /\ ledger' = ledger
             /\ (q.pid = NoPid /\ q.path \in {"evm", "svm"}
                    /\ rec.status = "confirmed"
                    /\ \/ q.pc = "nonce_get" /\ now <= rec.expiresAt
                       \/ q.pc = "claim"
                    /\ reqs'[r] # q /\ sent' # IdleReq)
                  => /\ answered
                     /\ sent'.status = 402
                     /\ sent'.handlerCalls = 0
                     /\ sent'.settler = "no"
                     /\ nonceDb' = nonceDb /\ idempotencyDb' = idempotencyDb
                     /\ ledger' = ledger]_vars

\* The handler has just failed for a settled payment with a paymentId on a
\* path that keeps a nonce record: the record is confirmed, the header is
\* cached, and a second request with the same paymentId is at its
\* idempotency lookup.
C40_Witness ==
    /\ sent.settler = "ok"
    /\ sent.handlerCalls = 1
    /\ sent.status = 500
    /\ sent.pid # NoPid
    /\ KeyOf(sent) # NoKey
    /\ NonceAt(KeyOf(sent)).status = "confirmed"
    /\ NonceAt(KeyOf(sent)).meta = sent.rid
    /\ CacheAt(sent.pid).status = "cached"
    /\ CacheAt(sent.pid).response = sent.payResp
    /\ \E r \in Slots : reqs[r].pc = "idem_get" /\ reqs[r].pid = sent.pid

====
